---- MODULE Spec2Model ----
(***************************************************************************)
(* Stage pipeline and JSON recovery of examples/chemical_emergency.        *)
(*                                                                         *)
(* A text is a sequence of characters.  The punctuation of JSON is kept    *)
(* character by character ("{", "}", "[", "]", ",", ":", the quote and the *)
(* space); a run of letters is one symbol (the field name basic_info is    *)
(* the symbol "basic_info", "x" is some other word) and "1" is a digit.    *)
(* A Python dict is a sequence of <<key, value>> pairs in insertion order, *)
(* a JSON value inside a dict is kept as its json.dumps text.              *)
(***************************************************************************)
EXTENDS Integers, Sequences, FiniteSets, TLC

Q == "\""

WS == {" "}

Digits == {"1"}

Literals == {"true", "false", "null"}

\* ------------------------------------------------------------------------
\* Python str helpers
\* ------------------------------------------------------------------------

\* a local variable of the source: v is computed and named, Op is the code using it
With(v, Op(_)) == Op(v)

\* text[a:b] with 0-based a inclusive, b exclusive, already clamped
Slice(s, a, b) ==
    IF b <= a THEN <<>> ELSE SubSeq(s, a + 1, b)

\* str.find(c): 0-based index of the first c, -1 when absent
Find(s, c) ==
    IF \E i \in 1..Len(s) : s[i] = c
    THEN (CHOOSE i \in 1..Len(s) : s[i] = c /\ \A j \in 1..(i - 1) : s[j] # c) - 1
    ELSE -1

\* str.rfind(c): 0-based index of the last c, -1 when absent
RFind(s, c) ==
    IF \E i \in 1..Len(s) : s[i] = c
    THEN (CHOOSE i \in 1..Len(s) : s[i] = c /\ \A j \in (i + 1)..Len(s) : s[j] # c) - 1
    ELSE -1

\* str.strip()
Strip(s) ==
    IF \A i \in 1..Len(s) : s[i] \in WS
    THEN <<>>
    ELSE LET a == CHOOSE i \in 1..Len(s) : s[i] \notin WS /\ \A j \in 1..(i - 1) : s[j] \in WS
             b == CHOOSE i \in 1..Len(s) : s[i] \notin WS /\ \A j \in (i + 1)..Len(s) : s[j] \in WS
         IN  SubSeq(s, a, b)

\* needle in s (substring test)
Contains(s, needle) ==
    \E i \in 1..(Len(s) - Len(needle) + 1) : SubSeq(s, i, i + Len(needle) - 1) = needle

\* ------------------------------------------------------------------------
\* Python dict (insertion ordered)
\* ------------------------------------------------------------------------

DictKeys(d) == {d[i][1] : i \in 1..Len(d)}

DictHas(d, k) == \E i \in 1..Len(d) : d[i][1] = k

DictGet(d, k) == d[CHOOSE i \in 1..Len(d) : d[i][1] = k][2]

\* d[k] = v
DictSet(d, k, v) ==
    IF DictHas(d, k)
    THEN [i \in 1..Len(d) |-> IF d[i][1] = k THEN <<k, v>> ELSE d[i]]
    ELSE Append(d, <<k, v>>)

RECURSIVE DictUpdate(_, _)
\* d.update(e)
DictUpdate(d, e) ==
    IF e = <<>> THEN d
    ELSE DictUpdate(DictSet(d, e[1][1], e[1][2]), Tail(e))

RECURSIVE DumpsMembers(_)
DumpsMembers(d) ==
    IF d = <<>> THEN <<>>
    ELSE <<Q>> \o d[1][1] \o <<Q, ":", " ">> \o d[1][2]
         \o (IF Len(d) > 1 THEN <<",", " ">> ELSE <<>>) \o DumpsMembers(Tail(d))

\* json.dumps(d) of a dict, default separators
Dumps(d) == <<"{">> \o DumpsMembers(d) \o <<"}">>

\* ------------------------------------------------------------------------
\* json.loads
\* ------------------------------------------------------------------------

SkipWS(s, i) ==
    IF \E j \in i..Len(s) : s[j] \notin WS
    THEN CHOOSE j \in i..Len(s) : s[j] \notin WS /\ \A k \in i..(j - 1) : s[k] \in WS
    ELSE Len(s) + 1

JFail == [ok |-> FALSE, next |-> 0, kind |-> "none", text |-> <<>>, dict |-> <<>>]

JOk(n, k, t, d) == [ok |-> TRUE, next |-> n, kind |-> k, text |-> t, dict |-> d]

\* s[i] is the opening quote: scan to the closing quote
ParseString(s, i) ==
    IF \E j \in (i + 1)..Len(s) : s[j] = Q
    THEN LET j == CHOOSE j \in (i + 1)..Len(s) : s[j] = Q /\ \A k \in (i + 1)..(j - 1) : s[k] # Q
         IN  JOk(j + 1, "string", SubSeq(s, i, j), <<>>)
    ELSE JFail

\* s[i] is a digit: the run of digits
ParseNumber(s, i) ==
    LET j == IF \E k \in i..Len(s) : s[k] \notin Digits
             THEN CHOOSE k \in i..Len(s) : s[k] \notin Digits /\ \A m \in i..(k - 1) : s[m] \in Digits
             ELSE Len(s) + 1
    IN  JOk(j, "number", SubSeq(s, i, j - 1), <<>>)

RECURSIVE ParseValue(_, _)
RECURSIVE ParseMembers(_, _, _)
RECURSIVE ParseElems(_, _, _)

\* the value starting at s[i] (no leading whitespace)
ParseValue(s, i) ==
    IF i > Len(s) THEN JFail
    ELSE IF s[i] = Q THEN ParseString(s, i)
    ELSE IF s[i] \in Digits THEN ParseNumber(s, i)
    ELSE IF s[i] \in Literals THEN JOk(i + 1, "literal", <<s[i]>>, <<>>)
    ELSE IF s[i] = "{" THEN
        LET j == SkipWS(s, i + 1)
        IN  IF j <= Len(s) /\ s[j] = "}" THEN JOk(j + 1, "object", <<"{", "}">>, <<>>)
            ELSE ParseMembers(s, j, <<>>)
    ELSE IF s[i] = "[" THEN
        LET j == SkipWS(s, i + 1)
        IN  IF j <= Len(s) /\ s[j] = "]" THEN JOk(j + 1, "array", <<"[", "]">>, <<>>)
            ELSE ParseElems(s, j, <<>>)
    ELSE JFail

\* members of an object from s[i] (a key must start here); acc: pairs so far
ParseMembers(s, i, acc) ==
    IF i > Len(s) \/ s[i] # Q THEN JFail
    ELSE With(ParseString(s, i), LAMBDA key :
         IF ~key.ok THEN JFail
         ELSE With(SkipWS(s, key.next), LAMBDA c :
              IF c > Len(s) \/ s[c] # ":" THEN JFail
              ELSE With(ParseValue(s, SkipWS(s, c + 1)), LAMBDA val :
                   IF ~val.ok THEN JFail
                   ELSE With(SkipWS(s, val.next), LAMBDA e :
                        With(DictSet(acc, SubSeq(key.text, 2, Len(key.text) - 1), val.text),
                             LAMBDA new :
                        IF e > Len(s) THEN JFail
                        ELSE IF s[e] = "}" THEN JOk(e + 1, "object", Dumps(new), new)
                        ELSE IF s[e] = "," THEN ParseMembers(s, SkipWS(s, e + 1), new)
                        ELSE JFail)))))

\* elements of an array from s[i]; acc: dumps text of the elements so far
ParseElems(s, i, acc) ==
    With(ParseValue(s, i), LAMBDA val :
    IF ~val.ok THEN JFail
    ELSE With(SkipWS(s, val.next), LAMBDA e :
         With(acc \o (IF acc = <<>> THEN <<>> ELSE <<",", " ">>) \o val.text, LAMBDA new :
         IF e > Len(s) THEN JFail
         ELSE IF s[e] = "]" THEN JOk(e + 1, "array", <<"[">> \o new \o <<"]">>, <<>>)
         ELSE IF s[e] = "," THEN ParseElems(s, SkipWS(s, e + 1), new)
         ELSE JFail)))

\* json.loads(s): ok = FALSE stands for json.JSONDecodeError
Loads(s) ==
    With(ParseValue(s, SkipWS(s, 1)), LAMBDA v :
         IF v.ok /\ SkipWS(s, v.next) > Len(s) THEN v ELSE JFail)

\* ------------------------------------------------------------------------
\* the regular expressions of attempt_fix_truncated_json
\* ------------------------------------------------------------------------

NoMatch == [found |-> FALSE, group |-> <<>>]

\* first index >= i holding a brace, Len(s) + 1 when there is none: [^{}]*
NonBraceRun(s, i) ==
    IF \E j \in i..Len(s) : s[j] \in {"{", "}"}
    THEN CHOOSE j \in i..Len(s) : s[j] \in {"{", "}"} /\ \A k \in i..(j - 1) : s[k] \notin {"{", "}"}
    ELSE Len(s) + 1

RECURSIVE BraceGroups(_, _)
\* ({[^{}]*})* from s[i]: index after the last adjacent {...} group
BraceGroups(s, i) ==
    IF i <= Len(s) /\ s[i] = "{"
    THEN With(NonBraceRun(s, i + 1), LAMBDA e :
              IF e <= Len(s) /\ s[e] = "}" THEN BraceGroups(s, e + 1) ELSE i)
    ELSE i

\* re.search returns the leftmost match: the least start index
Leftmost(starts) == CHOOSE i \in starts : \A j \in starts : i <= j

\* index of the "{" of  "key"\s*:\s*{  anchored at s[i], 0 when it does not match
FieldOpenAt(s, i, key) ==
    IF i + 2 <= Len(s) /\ s[i] = Q /\ s[i + 1] = key /\ s[i + 2] = Q
    THEN With(SkipWS(s, i + 3), LAMBDA c :
              IF c <= Len(s) /\ s[c] = ":"
              THEN With(SkipWS(s, c + 1), LAMBDA b :
                        IF b <= Len(s) /\ s[b] = "{" THEN b ELSE 0)
              ELSE 0)
    ELSE 0

\* "key"\s*:\s*{([^{}]*({[^{}]*})*[^{}]*)}  anchored at s[i]: index of the closing "}", 0 if none
NestedCloseAt(s, i, key) ==
    With(FieldOpenAt(s, i, key), LAMBDA b :
         IF b = 0 THEN 0
         ELSE With(NonBraceRun(s, BraceGroups(s, NonBraceRun(s, b + 1))), LAMBDA e :
                   IF e <= Len(s) /\ s[e] = "}" THEN e ELSE 0))

\* "key"\s*:\s*{([^{}]*)}  anchored at s[i]: index of the closing "}", 0 if none
FlatCloseAt(s, i, key) ==
    With(FieldOpenAt(s, i, key), LAMBDA b :
         IF b = 0 THEN 0
         ELSE With(NonBraceRun(s, b + 1), LAMBDA e :
                   IF e <= Len(s) /\ s[e] = "}" THEN e ELSE 0))

\* re.search(r'"key"\s*:\s*{([^{}]*({[^{}]*})*[^{}]*)}', s): group(1) of the leftmost match
SearchNested(s, key) ==
    With({i \in 1..Len(s) : NestedCloseAt(s, i, key) # 0}, LAMBDA starts :
         IF starts = {} THEN NoMatch
         ELSE With(Leftmost(starts), LAMBDA i :
                   [found |-> TRUE,
                    group |-> Slice(s, FieldOpenAt(s, i, key), NestedCloseAt(s, i, key) - 1)]))

\* re.search(r'"key"\s*:\s*{([^{}]*)}', s)
SearchFlat(s, key) ==
    With({i \in 1..Len(s) : FlatCloseAt(s, i, key) # 0}, LAMBDA starts :
         IF starts = {} THEN NoMatch
         ELSE With(Leftmost(starts), LAMBDA i :
                   [found |-> TRUE,
                    group |-> Slice(s, FieldOpenAt(s, i, key), FlatCloseAt(s, i, key) - 1)]))

\* "key"\s*:\s*\[(.*?)\]  anchored at s[i]: <<index of "[", index of the first "]" after it>>
ListSpanAt(s, i, key) ==
    IF i + 2 <= Len(s) /\ s[i] = Q /\ s[i + 1] = key /\ s[i + 2] = Q
    THEN With(SkipWS(s, i + 3), LAMBDA c :
              IF c <= Len(s) /\ s[c] = ":"
              THEN With(SkipWS(s, c + 1), LAMBDA b :
                        IF b <= Len(s) /\ s[b] = "[" /\ \E e \in (b + 1)..Len(s) : s[e] = "]"
                        THEN <<b, CHOOSE e \in (b + 1)..Len(s) :
                                      s[e] = "]" /\ \A k \in (b + 1)..(e - 1) : s[k] # "]">>
                        ELSE <<0, 0>>)
              ELSE <<0, 0>>)
    ELSE <<0, 0>>

\* re.search(r'"key"\s*:\s*\[(.*?)\]', s)
SearchList(s, key) ==
    With({i \in 1..Len(s) : ListSpanAt(s, i, key)[1] # 0}, LAMBDA starts :
         IF starts = {} THEN NoMatch
         ELSE With(ListSpanAt(s, Leftmost(starts), key), LAMBDA sp :
                   [found |-> TRUE, group |-> Slice(s, sp[1], sp[2] - 1)]))

RECURSIVE ReSub(_, _, _, _, _)
\* re.sub(r'<first>\s*<last>', repl, s), scanning s from index i
ReSub(s, i, first, last, repl) ==
    IF i > Len(s) THEN <<>>
    ELSE LET e == SkipWS(s, i + 1)
         IN  IF s[i] = first /\ e <= Len(s) /\ s[e] = last
             THEN repl \o ReSub(s, e + 1, first, last, repl)
             ELSE <<s[i]>> \o ReSub(s, i + 1, first, last, repl)

\* re.sub(r',\s*}', '}', s) then re.sub(r'"\s*}', '"}', s)
FixFieldText(s) ==
    ReSub(ReSub(s, 1, ",", "}", <<"}">>), 1, Q, "}", <<Q, "}">>)

RECURSIVE StrReplace(_, _, _, _)
\* str.replace(old, new) from index i, old not empty
StrReplace(s, i, old, new) ==
    IF i > Len(s) THEN <<>>
    ELSE IF i + Len(old) - 1 <= Len(s) /\ SubSeq(s, i, i + Len(old) - 1) = old
         THEN new \o StrReplace(s, i + Len(old), old, new)
         ELSE <<s[i]>> \o StrReplace(s, i + 1, old, new)

\* the isolation_zone / command_system / ambulance_standby / specialist_team step:
\* the group never ends with "}", so a non-empty group gets a "}" appended everywhere
FixSubField(s, sub) ==
    With(SearchFlat(s, sub), LAMBDA m :
         IF m.found /\ m.group # <<>> /\ m.group[Len(m.group)] # "}"
         THEN StrReplace(s, 1, m.group, m.group \o <<"}">>)
         ELSE s)

RECURSIVE FixSubFields(_, _)
FixSubFields(s, subs) ==
    IF subs = <<>> THEN s ELSE FixSubFields(FixSubField(s, subs[1]), Tail(subs))

\* ------------------------------------------------------------------------
\* attempt_fix_truncated_json
\* ------------------------------------------------------------------------

FieldSpec(k, fx, sb, fb, fk) == [key |-> k, fix |-> fx, subs |-> sb, fb |-> fb, fbkey |-> fk]

\* the field blocks with one more block in front, for a stage-0 field
RepairFields_WithSituation ==
    << FieldSpec("basic_info", FALSE, <<>>, "none", ""),
       FieldSpec("emergency_level", FALSE, <<>>, "none", ""),
       FieldSpec("evacuation_plan", FALSE, <<>>, "none", ""),
       FieldSpec("onsite_response", TRUE, <<"isolation_zone", "command_system">>,
                 "nested", "isolation_zone"),
       FieldSpec("medical_response", TRUE, <<"ambulance_standby", "specialist_team">>,
                 "list", "triage_locations"),
       FieldSpec("environmental_monitoring", TRUE, <<>>, "none", ""),
       FieldSpec("resource_allocation", TRUE, <<>>, "flat", "emergency_personnel"),
       FieldSpec("information_management", TRUE, <<>>, "flat", "notification_chain"),
       FieldSpec("recovery_plan", TRUE, <<>>, "flat", "site_cleanup"),
       FieldSpec("secondary_disaster_prevention", TRUE, <<>>, "flat", "explosion_prevention"),
       FieldSpec("special_material_handling", TRUE, <<>>, "none", "") >>

\* the field blocks of step 1, in source order: the field searched, whether the
\* comma/quote fixups run, the nested sub-fields patched, and the simplified
\* extraction of the except branch
RepairFields ==
    << FieldSpec("emergency_level", FALSE, <<>>, "none", ""),
       FieldSpec("evacuation_plan", FALSE, <<>>, "none", ""),
       FieldSpec("onsite_response", TRUE, <<"isolation_zone", "command_system">>,
                 "nested", "isolation_zone"),
       FieldSpec("medical_response", TRUE, <<"ambulance_standby", "specialist_team">>,
                 "list", "triage_locations"),
       FieldSpec("environmental_monitoring", TRUE, <<>>, "none", ""),
       FieldSpec("resource_allocation", TRUE, <<>>, "flat", "emergency_personnel"),
       FieldSpec("information_management", TRUE, <<>>, "flat", "notification_chain"),
       FieldSpec("recovery_plan", TRUE, <<>>, "flat", "site_cleanup"),
       FieldSpec("secondary_disaster_prevention", TRUE, <<>>, "flat", "explosion_prevention"),
       FieldSpec("special_material_handling", TRUE, <<>>, "none", "") >>

\* '{"key":' + text + '}'
WrapField(key, text) == <<"{", Q, key, Q, ":">> \o text \o <<"}">>

\* if key not in complete_fields: complete_fields[key] = {}; then
\* complete_fields[key].update(sub) where sub is a parsed dict
NestedUpdate(cf, key, sub) ==
    LET base == IF DictHas(cf, key) THEN Loads(DictGet(cf, key)).dict ELSE <<>>
    IN  DictSet(cf, key, Dumps(DictUpdate(base, sub)))

\* the except branch of one field block
FieldFallback(cf, s, f) ==
    IF f.fb = "nested" \/ f.fb = "flat" THEN
        With(IF f.fb = "nested" THEN SearchNested(s, f.fbkey) ELSE SearchFlat(s, f.fbkey),
             LAMBDA m :
        With(Loads(WrapField(f.fbkey, <<"{">> \o m.group \o <<"}">>)), LAMBDA j :
             IF m.found /\ j.ok THEN NestedUpdate(cf, <<f.key>>, j.dict) ELSE cf))
    ELSE IF f.fb = "list" THEN
        With(SearchList(s, f.fbkey), LAMBDA m :
        With(Loads(<<"[">> \o m.group \o <<"]">>), LAMBDA j :
             IF m.found /\ j.ok
             THEN NestedUpdate(cf, <<f.key>>, << <<<<f.fbkey>>, j.text>> >>)
             ELSE cf))
    ELSE cf

\* the text of a matched field block after its fixups: '{' + group(1) + '}', then
\* the comma and quote fixups and the nested sub-field patches where the block has them
FieldText(f, group) ==
    IF f.fix THEN FixSubFields(FixFieldText(<<"{">> \o group \o <<"}">>), f.subs)
    ELSE <<"{">> \o group \o <<"}">>

\* one field block: search, patch, parse '{"key": {...}}' in isolation, update
ExtractField(cf, s, f) ==
    With(SearchNested(s, f.key), LAMBDA m :
         IF ~m.found THEN cf
         ELSE With(Loads(WrapField(f.key, FieldText(f, m.group))), LAMBDA j :
                   IF j.ok THEN DictUpdate(cf, j.dict) ELSE FieldFallback(cf, s, f)))

RECURSIVE ExtractFields(_, _, _)
ExtractFields(cf, s, fs) ==
    IF fs = <<>> THEN cf ELSE ExtractFields(ExtractField(cf, s, fs[1]), s, Tail(fs))

RECURSIVE BracketsStack(_, _, _)
\* the scan of step 3: the expected closers still pending after s[i..]
BracketsStack(s, i, st) ==
    IF i > Len(s) THEN st
    ELSE IF s[i] = "{" THEN BracketsStack(s, i + 1, Append(st, "}"))
    ELSE IF s[i] = "[" THEN BracketsStack(s, i + 1, Append(st, "]"))
    ELSE IF s[i] \in {"}", "]"} /\ st # <<>> /\ st[Len(st)] = s[i]
         THEN BracketsStack(s, i + 1, SubSeq(st, 1, Len(st) - 1))
    ELSE BracketsStack(s, i + 1, st)

\* the closers taken from the bottom of the stack: fixed_json += brackets_stack.pop(0)
PopAll_FIFO(st) == st

RECURSIVE PopAll(_)
\* while brackets_stack: fixed_json += brackets_stack.pop()
PopAll(st) ==
    IF st = <<>> THEN <<>> ELSE <<st[Len(st)]>> \o PopAll(SubSeq(st, 1, Len(st) - 1))

ValueStart(s, k) ==
    k <= Len(s) /\ (s[k] \in Literals \/ s[k] \in Digits \/ s[k] \in {"{", "[", Q})

\* "([^"]+)"\s*:\s*(?!(true|false|null|\{|\[|"|\d))  anchored at s[i]:
\* <<index of the closing quote, index after the match>>, <<0, 0>> when no match.
\* The last \s* gives back one space when the text after it starts a value.
UnknownAt(s, i) ==
    IF s[i] = Q /\ \E j \in (i + 1)..Len(s) : s[j] = Q
    THEN LET j == CHOOSE j \in (i + 1)..Len(s) : s[j] = Q /\ \A k \in (i + 1)..(j - 1) : s[k] # Q
             c == SkipWS(s, j + 1)
             w == SkipWS(s, c + 1)
         IN  IF j >= i + 2 /\ c <= Len(s) /\ s[c] = ":"
             THEN IF ~ValueStart(s, w) THEN <<j, w>>
                  ELSE IF w > c + 1 THEN <<j, w - 1>>
                  ELSE <<0, 0>>
             ELSE <<0, 0>>
    ELSE <<0, 0>>

RECURSIVE SubUnknown(_, _)
\* re.sub(<the pattern above>, r'"\1": "unknown"', s) from index i
SubUnknown(s, i) ==
    IF i > Len(s) THEN <<>>
    ELSE With(UnknownAt(s, i), LAMBDA m :
              IF m[1] # 0
              THEN SubSeq(s, i, m[1]) \o <<":", " ", Q, "unknown", Q>> \o SubUnknown(s, m[2])
              ELSE <<s[i]>> \o SubUnknown(s, i + 1))

\* fixed_json after the while loop: json_text followed by the popped closers
CloseBrackets(s) == s \o PopAll(BracketsStack(s, 1, <<>>))

\* the five re.sub fixups in source order
Fixups(closed) ==
    LET f1 == ReSub(closed, 1, ",", "}", <<"}">>)
        f2 == ReSub(f1, 1, ",", "]", <<"]">>)
        f3 == ReSub(f2, 1, Q, "{", <<Q, ",", "{">>)
        f4 == ReSub(f3, 1, Q, "[", <<Q, ",", "[">>)
    IN  SubUnknown(f4, 1)

\* step 3: close the pending brackets, then the textual fixups
StructuralRepair(s) == Fixups(CloseBrackets(s))

\* the text of line 1084 without its last brace
MinimalLevelText_Open ==
    <<"{", Q, "emergency_level", Q, ":", "{", Q, "level", Q, ":", Q, "I", Q, ",",
      Q, "reason", Q, ":", Q, "wide", Q, "}">>

\* '{"emergency_level":{"level":"I","reason":"wide"}}'
MinimalLevelText ==
    <<"{", Q, "emergency_level", Q, ":", "{", Q, "level", Q, ":", Q, "I", Q, ",",
      Q, "reason", Q, ":", Q, "wide", Q, "}", "}">>

attempt_fix_truncated_json(json_text) ==
    IF Loads(json_text).ok THEN json_text
    ELSE With(ExtractFields(<<>>, json_text, RepairFields), LAMBDA complete_fields :
         IF complete_fields # <<>> THEN Dumps(complete_fields)
         ELSE With(StructuralRepair(json_text), LAMBDA fixed_json :
              IF Loads(fixed_json).ok THEN fixed_json
              ELSE IF Contains(json_text, <<Q, "emergency_level", Q>>)
                   THEN MinimalLevelText
                   ELSE <<"{", "}">>))

\* ------------------------------------------------------------------------
\* validate_json_structure
\* ------------------------------------------------------------------------

basic_keys ==
    <<"basic_info", "accident_info", "weather_conditions", "geographical_info",
      "sensitive_targets">>

impact_keys ==
    <<"dispersion_prediction", "population_impact", "environmental_impact",
      "secondary_disasters", "social_impact">>

plan_keys ==
    <<"emergency_level", "evacuation_plan", "onsite_response", "medical_response",
      "environmental_monitoring", "resource_allocation", "information_management",
      "recovery_plan">>

\* found_keys = [key for key in keys if key in json_data]
found_keys(keys, json_data) ==
    SelectSeq(keys, LAMBDA k : DictHas(json_data, <<k>>))

\* stage 0 asks for four of its keys
validate_json_structure_Four(json_data, operation_index) ==
    IF json_data = <<>> THEN FALSE
    ELSE IF operation_index = 0 THEN Len(found_keys(basic_keys, json_data)) >= 4
    ELSE IF operation_index = 1 THEN Len(found_keys(impact_keys, json_data)) >= 2
    ELSE IF operation_index = 2 THEN Len(found_keys(plan_keys, json_data)) >= 1
    ELSE TRUE

\* the number of keys found has to equal the threshold
validate_json_structure_Exact(json_data, operation_index) ==
    IF json_data = <<>> THEN FALSE
    ELSE IF operation_index = 0 THEN Len(found_keys(basic_keys, json_data)) = 3
    ELSE IF operation_index = 1 THEN Len(found_keys(impact_keys, json_data)) = 2
    ELSE IF operation_index = 2 THEN Len(found_keys(plan_keys, json_data)) = 1
    ELSE TRUE

\* emergency_level is not one of the stage-2 keys
validate_json_structure_NoLevel(json_data, operation_index) ==
    IF json_data = <<>> THEN FALSE
    ELSE IF operation_index = 0 THEN Len(found_keys(basic_keys, json_data)) >= 3
    ELSE IF operation_index = 1 THEN Len(found_keys(impact_keys, json_data)) >= 2
    ELSE IF operation_index = 2 THEN Len(found_keys(Tail(plan_keys), json_data)) >= 1
    ELSE TRUE

validate_json_structure(json_data, operation_index) ==
    IF json_data = <<>> THEN FALSE
    ELSE IF operation_index = 0 THEN Len(found_keys(basic_keys, json_data)) >= 3
    ELSE IF operation_index = 1 THEN Len(found_keys(impact_keys, json_data)) >= 2
    ELSE IF operation_index = 2 THEN Len(found_keys(plan_keys, json_data)) >= 1
    ELSE TRUE

\* ------------------------------------------------------------------------
\* parse_generate_answer: one response text
\* ------------------------------------------------------------------------

\* {"emergency_level": {"level": "I", "reason": "wide"}}
MinimalLevel ==
    << << <<"emergency_level">>,
          <<"{", Q, "level", Q, ":", " ", Q, "I", Q, ",", " ",
            Q, "reason", Q, ":", " ", Q, "wide", Q, "}">> >> >>

\* "key"\s*:\s*{([^}]+)}  anchored at s[i]: index of the closing "}", 0 if none
LooseCloseAt(s, i, key) ==
    With(FieldOpenAt(s, i, key), LAMBDA b :
         IF b # 0 /\ \E e \in (b + 2)..Len(s) : s[e] = "}"
         THEN IF s[b + 1] = "}" THEN 0
              ELSE CHOOSE e \in (b + 2)..Len(s) :
                       s[e] = "}" /\ \A k \in (b + 2)..(e - 1) : s[k] # "}"
         ELSE 0)

\* re.search(r'"emergency_level"\s*:\s*{([^}]+)}', s)
SearchLoose(s, key) ==
    With({i \in 1..Len(s) : LooseCloseAt(s, i, key) # 0}, LAMBDA starts :
         IF starts = {} THEN NoMatch
         ELSE With(Leftmost(starts), LAMBDA i :
                   [found |-> TRUE,
                    group |-> Slice(s, FieldOpenAt(s, i, key), LooseCloseAt(s, i, key) - 1)]))

\* the except branch for stage 2 when the repaired text still does not parse
PartialLevel(json_text) ==
    With(SearchLoose(json_text, "emergency_level"), LAMBDA m :
    With(Loads(WrapField("emergency_level",
                         StrReplace(<<"{">> \o m.group \o <<"}">>, 1, <<Q, Q>>,
                                    <<Q, "unknown", Q>>))), LAMBDA j :
         IF m.found /\ j.ok THEN j.dict ELSE MinimalLevel))

NoResponse == [present |-> FALSE, dict |-> <<>>]

\* the span ends at the first "}" instead of the last
JsonSpan_FirstClose(text) ==
    With(Find(text, "{"), LAMBDA start_idx :
    With(Find(text, "}"), LAMBDA end_idx :
         IF start_idx # -1 /\ end_idx # -1
         THEN [found |-> TRUE, group |-> Slice(text, start_idx, end_idx + 1)]
         ELSE NoMatch))

\* start_idx = text.find('{'); end_idx = text.rfind('}'); text[start_idx:end_idx+1]
JsonSpan(text) ==
    With(Find(text, "{"), LAMBDA start_idx :
    With(RFind(text, "}"), LAMBDA end_idx :
         IF start_idx # -1 /\ end_idx # -1
         THEN [found |-> TRUE, group |-> Slice(text, start_idx, end_idx + 1)]
         ELSE NoMatch))

\* a text without a span is skipped at stage 2 as it is at stages 0 and 1
ResponseJson_SkipSpanless(text0, operation_index) ==
    With(JsonSpan(Strip(text0)), LAMBDA span :
         IF span.found
         THEN With(Loads(attempt_fix_truncated_json(span.group)), LAMBDA j :
                   IF j.ok THEN [present |-> TRUE, dict |-> j.dict]
                   ELSE IF operation_index = 2
                        THEN [present |-> TRUE, dict |-> PartialLevel(span.group)]
                        ELSE NoResponse)
         ELSE NoResponse)

\* the response_json of one text, present = FALSE where the loop continues
ResponseJson(text0, operation_index) ==
    With(JsonSpan(Strip(text0)), LAMBDA span :
         IF span.found
         THEN With(Loads(attempt_fix_truncated_json(span.group)), LAMBDA j :
                   IF j.ok THEN [present |-> TRUE, dict |-> j.dict]
                   ELSE IF operation_index = 2
                        THEN [present |-> TRUE, dict |-> PartialLevel(span.group)]
                        ELSE NoResponse)
         ELSE IF operation_index = 2
              THEN [present |-> TRUE, dict |-> MinimalLevel]
              ELSE NoResponse)

\* every response_json is saved, validated or not
Saves_Always(response_json, operation_index) == TRUE

\* whether the stage branch saves response_json into a new state
Saves(response_json, operation_index) ==
    IF operation_index \in {0, 1} THEN validate_json_structure(response_json, operation_index)
    ELSE IF operation_index = 2
         THEN validate_json_structure(response_json, 2)
              \/ DictHas(response_json, <<"emergency_level">>)
    ELSE TRUE

\* a response text that ends in new_thoughts.append
Accepted(text, operation_index) ==
    With(ResponseJson(text, operation_index), LAMBDA r :
         r.present /\ Saves(r.dict, operation_index))

\* ------------------------------------------------------------------------
\* Python objects: a heap h = [th |-> thought dicts, ds |-> "state" dicts].
\* A thought dict is a record of its three keys; its "state" entry is the
\* identity of a dict in ds, or NoState when the key is absent.
\* ------------------------------------------------------------------------

NoState == 0

ThoughtRec(oi, it, st) == [operation_index |-> oi, input_text |-> it, state |-> st]

\* new_thought = thought: the same dict, not a copy
ThoughtCopy_Alias(h, tid) ==
    [h |-> h, id |-> tid]

\* thought.copy(): a new dict with the same entries (shallow)
ThoughtCopy(h, tid) ==
    [h |-> [h EXCEPT !.th = Append(h.th, h.th[tid])], id |-> Len(h.th) + 1]

\* a dict object created with the contents d
NewDict(h, d) ==
    [h |-> [h EXCEPT !.ds = Append(h.ds, d)], id |-> Len(h.ds) + 1]

\* thought.get("state", {})
PrevState(h, tid) ==
    IF h.th[tid].state = NoState THEN <<>> ELSE h.ds[h.th[tid].state]

\* new_thought["state"] = {}: the previous stages are not carried over
PrevStateCopy_Fresh(h, tid) == NewDict(h, <<>>)

\* prev_state = thought.get("state", {}); prev_state.copy()
PrevStateCopy(h, tid) == NewDict(h, PrevState(h, tid))

\* obj[key] = value on a thought dict
SetKey(h, tid, key, value) ==
    [h EXCEPT !.th[tid] = [@ EXCEPT ![key] = value]]

\* new_thought["state"][key] = value
SetStateItem(h, did, key, value) ==
    [h EXCEPT !.ds[did] = DictSet(@, key, value)]

\* both stages store under response_plan
StageKey_Plan(operation_index) == <<"response_plan">>

\* the key under which stage 1 / stage 2 store response_json
StageKey(operation_index) ==
    IF operation_index = 1 THEN <<"impact_assessment">> ELSE <<"response_plan">>

\* the stage branch of the loop body for a saved response_json
SaveState(h, tid, ntid, operation_index, response_json) ==
    IF operation_index = 0
    THEN LET d == NewDict(h, response_json)
         IN  SetKey(d.h, ntid, "state", d.id)
    ELSE IF operation_index \in {1, 2}
    THEN LET c == PrevStateCopy(h, tid)
         IN  SetStateItem(SetKey(c.h, ntid, "state", c.id), c.id,
                          StageKey(operation_index), Dumps(response_json))
    ELSE h

\* the new thought keeps the operation index of the thought it was copied from
ProcessResponse_NoAdvance(h, tid, operation_index, input_text, text) ==
    With(ResponseJson(text, operation_index), LAMBDA r :
         IF ~r.present \/ ~Saves(r.dict, operation_index)
         THEN [h |-> h, added |-> <<>>]
         ELSE LET nt == ThoughtCopy(h, tid)
                  h1 == SaveState(nt.h, tid, nt.id, operation_index, r.dict)
                  h3 == SetKey(h1, nt.id, "input_text", input_text)
              IN  [h |-> h3, added |-> <<nt.id>>])

\* the loop body for one text: the heap after it and the thoughts appended
ProcessResponse(h, tid, operation_index, input_text, text) ==
    With(ResponseJson(text, operation_index), LAMBDA r :
         IF ~r.present \/ ~Saves(r.dict, operation_index)
         THEN [h |-> h, added |-> <<>>]
         ELSE LET nt == ThoughtCopy(h, tid)
                  h1 == SaveState(nt.h, tid, nt.id, operation_index, r.dict)
                  h2 == SetKey(h1, nt.id, "operation_index", operation_index + 1)
                  h3 == SetKey(h2, nt.id, "input_text", input_text)
              IN  [h |-> h3, added |-> <<nt.id>>])

RECURSIVE ParseLoop_First(_, _, _, _, _, _)
\* the loop breaks after the first response that is saved
ParseLoop_First(h, tid, operation_index, input_text, texts, new_thoughts) ==
    IF texts = <<>> \/ new_thoughts # <<>> THEN [h |-> h, ret |-> new_thoughts]
    ELSE With(ProcessResponse(h, tid, operation_index, input_text, Head(texts)), LAMBDA p :
              ParseLoop_First(p.h, tid, operation_index, input_text, Tail(texts),
                              new_thoughts \o p.added))

RECURSIVE ParseLoop(_, _, _, _, _, _)
\* for text in texts
ParseLoop(h, tid, operation_index, input_text, texts, new_thoughts) ==
    IF texts = <<>> THEN [h |-> h, ret |-> new_thoughts]
    ELSE With(ProcessResponse(h, tid, operation_index, input_text, Head(texts)), LAMBDA p :
              ParseLoop(p.h, tid, operation_index, input_text, Tail(texts),
                        new_thoughts \o p.added))

\* the basic thought keeps the operation index of the input
BasicThought_NoAdvance(h, tid, operation_index, input_text, new_thoughts) ==
    IF new_thoughts # <<>> THEN [h |-> h, ret |-> new_thoughts]
    ELSE LET bt == ThoughtCopy(h, tid)
             h2 == SetKey(bt.h, bt.id, "input_text", input_text)
             h3 == IF h2.th[bt.id].state = NoState
                   THEN LET d == NewDict(h2, <<>>) IN SetKey(d.h, bt.id, "state", d.id)
                   ELSE h2
         IN  [h |-> h3, ret |-> <<bt.id>>]

\* no basic thought: an empty list is returned
BasicThought_Dropped(h, tid, operation_index, input_text, new_thoughts) ==
    [h |-> h, ret |-> new_thoughts]

\* the basic thought always starts from an empty state
BasicThought_Resets(h, tid, operation_index, input_text, new_thoughts) ==
    IF new_thoughts # <<>> THEN [h |-> h, ret |-> new_thoughts]
    ELSE LET bt == ThoughtCopy(h, tid)
             h1 == SetKey(bt.h, bt.id, "operation_index", operation_index + 1)
             h2 == SetKey(h1, bt.id, "input_text", input_text)
             d  == NewDict(h2, <<>>)
         IN  [h |-> SetKey(d.h, bt.id, "state", d.id), ret |-> <<bt.id>>]

\* if not new_thoughts: the basic thought that lets the run continue
BasicThought(h, tid, operation_index, input_text, new_thoughts) ==
    IF new_thoughts # <<>> THEN [h |-> h, ret |-> new_thoughts]
    ELSE LET bt == ThoughtCopy(h, tid)
             h1 == SetKey(bt.h, bt.id, "operation_index", operation_index + 1)
             h2 == SetKey(h1, bt.id, "input_text", input_text)
             h3 == IF h2.th[bt.id].state = NoState
                   THEN LET d == NewDict(h2, <<>>) IN SetKey(d.h, bt.id, "state", d.id)
                   ELSE h2
         IN  [h |-> h3, ret |-> <<bt.id>>]

\* parse_generate_answer(thought, texts): the heap afterwards and the list returned
parse_generate_answer(h, tid, texts) ==
    With(ParseLoop(h, tid, h.th[tid].operation_index, h.th[tid].input_text, texts, <<>>),
         LAMBDA l :
         BasicThought(l.h, tid, h.th[tid].operation_index, h.th[tid].input_text, l.ret))

\* ------------------------------------------------------------------------
\* Inputs: response texts and prior states
\* ------------------------------------------------------------------------

MaxResponses == 2

K(k) == <<Q, k, Q>>

\* plain prose, no braces
TextProse == <<"x", " ", "x">>

\* x {"basic_info": {"x": "x"}, "accident_info": {"x":"x"}, "weather_conditions":{}} x
TextSituation ==
    <<"x", " ", "{">> \o K("basic_info") \o <<":", " ", "{">> \o K("x") \o <<":", " ">>
    \o K("x") \o <<"}", ",", " ">> \o K("accident_info") \o <<":", " ", "{">> \o K("x")
    \o <<":">> \o K("x") \o <<"}", ",", " ">> \o K("weather_conditions")
    \o <<":", "{", "}", "}", " ", "x">>

\* {"basic_info": {}, "accident_info": {}}
TextTwoKeys ==
    <<"{">> \o K("basic_info") \o <<":", " ", "{", "}", ",", " ">> \o K("accident_info")
    \o <<":", " ", "{", "}", "}">>

\* {"dispersion_prediction": {}, "population_impact": {"x": 1}}
TextImpact ==
    <<"{">> \o K("dispersion_prediction") \o <<":", " ", "{", "}", ",", " ">>
    \o K("population_impact") \o <<":", " ", "{">> \o K("x") \o <<":", " ", "1", "}", "}">>

\* {"emergency_level": {"level": "I"}, "evacuation_plan": {}}
TextPlan ==
    <<"{">> \o K("emergency_level") \o <<":", " ", "{">> \o K("level") \o <<":", " ">>
    \o K("I") \o <<"}", ",", " ">> \o K("evacuation_plan") \o <<":", " ", "{", "}", "}">>

\* {"emergency_level": {"level": "I", "reason": "x      (cut inside a string)
TextTruncated ==
    <<"{">> \o K("emergency_level") \o <<":", " ", "{">> \o K("level") \o <<":", " ">>
    \o K("I") \o <<",", " ">> \o K("reason") \o <<":", " ", Q, "x">>

\* {}
TextEmpty == <<"{", "}">>

\* } x {
TextReversed == <<"}", " ", "x", " ", "{">>

\* {"x": "x"}
TextOther == <<"{">> \o K("x") \o <<":", " ">> \o K("x") \o <<"}">>

SampleTexts ==
    {TextProse, TextSituation, TextTwoKeys, TextImpact, TextPlan, TextTruncated,
     TextEmpty, TextReversed, TextOther}

\* the response lists of length 0..MaxResponses
ResponseLists == UNION {[1..n -> SampleTexts] : n \in 0..MaxResponses}

InputText == <<"x">>

EmptyObj == <<"{", "}">>

\* accumulated data as stage 0 leaves it
SituationData ==
    << <<<<"basic_info">>, EmptyObj>>, <<<<"accident_info">>, EmptyObj>>,
       <<<<"weather_conditions">>, EmptyObj>> >>

\* accumulated data as stage 1 leaves it
ImpactData == Append(SituationData, <<<<"impact_assessment">>, Dumps(Loads(TextImpact).dict)>>)

\* the "state" entry of an input thought: absent, or one of these dicts
PriorData == {<<>>, SituationData, ImpactData}

Stages == 0..2

\* generate_prompt(state, operation_index): the text interpolated into the template
\* of the stage, each missing sub-object replaced by {}
generate_prompt(h, tid, operation_index) ==
    LET current_state == PrevState(h, tid)
        Sub(k) == IF DictHas(current_state, <<k>>) THEN DictGet(current_state, <<k>>)
                  ELSE EmptyObj
        situation == Dumps([i \in 1..Len(basic_keys) |-> <<<<basic_keys[i]>>, Sub(basic_keys[i])>>])
    IN  IF operation_index = 0 THEN <<"situation_analysis_prompt">> \o h.th[tid].input_text
        ELSE IF operation_index = 1 THEN <<"impact_assessment_prompt">> \o situation
        ELSE IF operation_index = 2
             THEN <<"response_plan_prompt">> \o situation \o Sub("impact_assessment")
        ELSE <<"default_prompt">>

\* ------------------------------------------------------------------------
\* The operations graph: three IndexedGenerate operations in a chain
\* ------------------------------------------------------------------------

\* num_branches_response of each operation
NumBranchesResponse == 1

\* situation_analysis_op -> impact_assessment_op -> response_plan_op
Predecessors(n) == IF n = 0 THEN {} ELSE {n - 1}

NoOp == 0 - 1

\* ------------------------------------------------------------------------
\* State
\* ------------------------------------------------------------------------

VARIABLES
    heap,       \* the Python objects: [th |-> thought dicts, ds |-> state dicts]
    arg,        \* parse_generate_answer: the thought passed in (0: no call set up)
    texts,      \* parse_generate_answer: the response texts passed in
    before,     \* the heap when parse_generate_answer was called
    ret,        \* the list parse_generate_answer returned
    called,     \* whether parse_generate_answer has returned
    status,     \* the run: "idle", "running", "done", "aborted"
    cur,        \* the operation inside _execute, NoOp between operations
    pending,    \* _execute: the previous thoughts still to process, head first
    executed,   \* per operation: _execute has returned
    opThoughts, \* per operation: self.thoughts
    prompt,     \* per operation: the last prompt rendered
    promptFrom, \* per operation: the thought that prompt was rendered from (0: none)
    responses,  \* per operation: the last response list received
    queries,    \* per operation: the number of lm.query calls made
    raisedAt,   \* the operation whose lm.query raised, NoOp if none
    final,      \* the thought whose state main delivers (0: none yet)
    fix,        \* one response through extraction and attempt_fix_truncated_json
    val,        \* one object through validate_json_structure
    fin,        \* one result list through process_results
    lm          \* a language model object and the query it is serving

parseVars == <<arg, texts, before, ret, called>>

runVars == <<status, cur, pending, executed, opThoughts, prompt, promptFrom, responses,
             queries, raisedAt, final>>

auxVars == <<fix, val, fin, lm>>

vars == <<heap, arg, texts, before, ret, called, status, cur, pending, executed,
          opThoughts, prompt, promptFrom, responses, queries, raisedAt, final, fix, val,
          fin, lm>>

\* no response is being repaired, no object is being validated
FixOff == [pc |-> "off"]

ValOff == [pc |-> "off"]

\* process_results is not being called, no language model object exists
FinOff == [pc |-> "off"]

LMOff == [pc |-> "off"]

\* ------------------------------------------------------------------------
\* parse_generate_answer applied to any thought and any response list
\* ------------------------------------------------------------------------

InitParse ==
    /\ \E oi \in Stages, hasState \in BOOLEAN, d \in PriorData :
          heap = [th |-> <<ThoughtRec(oi, InputText, IF hasState THEN 1 ELSE NoState)>>,
                  ds |-> IF hasState THEN <<d>> ELSE <<>>]
    /\ arg = 1
    /\ texts \in ResponseLists
    /\ before = heap
    /\ ret = <<>>
    /\ called = FALSE
    /\ status = "idle"
    /\ cur = NoOp
    /\ pending = <<>>
    /\ executed = [n \in Stages |-> FALSE]
    /\ opThoughts = [n \in Stages |-> <<>>]
    /\ prompt = [n \in Stages |-> <<>>]
    /\ promptFrom = [n \in Stages |-> 0]
    /\ responses = [n \in Stages |-> <<>>]
    /\ queries = [n \in Stages |-> 0]
    /\ raisedAt = NoOp
    /\ final = 0
    /\ fix = FixOff
    /\ val = ValOff
    /\ fin = FinOff
    /\ lm = LMOff

CallParse ==
    /\ ~called
    /\ arg # 0
    /\ \E r \in {parse_generate_answer(heap, arg, texts)} :
          /\ heap' = r.h
          /\ ret' = r.ret
    /\ called' = TRUE
    /\ UNCHANGED <<arg, texts, before>>
    /\ UNCHANGED runVars
    /\ UNCHANGED auxVars

NextParse == CallParse

SpecParse == InitParse /\ [][NextParse]_vars

\* ------------------------------------------------------------------------
\* The run: Controller.run over the three operations
\* ------------------------------------------------------------------------

\* Controller(lm, graph, prompter, parser, {"input_text", "operation_index": 0,
\* "state": {}}): the one object that exists is the {} of the parameters
Init ==
    /\ heap = [th |-> <<>>, ds |-> << <<>> >>]
    /\ arg = 0
    /\ texts = <<>>
    /\ before = heap
    /\ ret = <<>>
    /\ called = FALSE
    /\ status = "running"
    /\ cur = NoOp
    /\ pending = <<>>
    /\ executed = [n \in Stages |-> FALSE]
    /\ opThoughts = [n \in Stages |-> <<>>]
    /\ prompt = [n \in Stages |-> <<>>]
    /\ promptFrom = [n \in Stages |-> 0]
    /\ responses = [n \in Stages |-> <<>>]
    /\ queries = [n \in Stages |-> 0]
    /\ raisedAt = NoOp
    /\ final = 0
    /\ fix = FixOff
    /\ val = ValOff
    /\ fin = FinOff
    /\ lm = LMOff

\* an operation is run once all its predecessors have been executed
CanBeExecuted(n) == \A p \in Predecessors(n) : executed[p]

\* the thoughts of the predecessors of operation n
get_previous_thoughts(n) ==
    IF Predecessors(n) = {} THEN <<>> ELSE opThoughts[n - 1]

\* the base state is always kwargs, whatever the predecessors produced
BaseThoughts_Kwargs(h, n, previous_thoughts) ==
    [h |-> [h EXCEPT !.th = Append(h.th, ThoughtRec(n, InputText, 1))],
     list |-> <<Len(h.th) + 1>>]

\* _execute: without previous thoughts the base state is kwargs, a fresh dict
\* holding operation_index n, the input text and the {} of the parameters
BaseThoughts(h, n, previous_thoughts) ==
    IF previous_thoughts = <<>>
    THEN [h |-> [h EXCEPT !.th = Append(h.th, ThoughtRec(n, InputText, 1))],
          list |-> <<Len(h.th) + 1>>]
    ELSE [h |-> h, list |-> previous_thoughts]

\* _execute of operation n up to its first lm.query
Execute(n) ==
    /\ status = "running"
    /\ cur = NoOp
    /\ ~executed[n]
    /\ CanBeExecuted(n)
    /\ LET previous_thoughts == get_previous_thoughts(n)
       IN  IF previous_thoughts = <<>> /\ Predecessors(n) # {}
           THEN /\ executed' = [executed EXCEPT ![n] = TRUE]
                /\ UNCHANGED <<heap, cur, pending, prompt, promptFrom, queries>>
           ELSE LET b == BaseThoughts(heap, n, previous_thoughts)
                IN  /\ heap' = b.h
                    /\ cur' = n
                    /\ pending' = b.list
                    /\ prompt' = [prompt EXCEPT ![n] = generate_prompt(b.h, Head(b.list), n)]
                    /\ promptFrom' = [promptFrom EXCEPT ![n] = Head(b.list)]
                    /\ queries' = [queries EXCEPT ![n] = @ + 1]
                    /\ UNCHANGED executed
    /\ UNCHANGED <<opThoughts, responses, raisedAt, status, final>>
    /\ UNCHANGED parseVars
    /\ UNCHANGED auxVars

\* lm.query returns: the responses are parsed, the new states appended, and
\* the loop goes on to the next previous thought or _execute returns
LMReturn(resp) ==
    /\ status = "running"
    /\ cur # NoOp
    /\ \E r \in {parse_generate_answer(heap, Head(pending), resp)} :
          /\ heap' = r.h
          /\ opThoughts' = [opThoughts EXCEPT ![cur] = @ \o r.ret]
          /\ responses' = [responses EXCEPT ![cur] = resp]
          /\ pending' = Tail(pending)
          /\ IF Tail(pending) = <<>>
             THEN /\ executed' = [executed EXCEPT ![cur] = TRUE]
                  /\ cur' = NoOp
                  /\ UNCHANGED <<prompt, promptFrom, queries>>
             ELSE /\ prompt' = [prompt EXCEPT ![cur] = generate_prompt(r.h, pending[2], cur)]
                  /\ promptFrom' = [promptFrom EXCEPT ![cur] = pending[2]]
                  /\ queries' = [queries EXCEPT ![cur] = @ + 1]
                  /\ UNCHANGED <<executed, cur>>
    /\ UNCHANGED <<raisedAt, status, final>>
    /\ UNCHANGED parseVars
    /\ UNCHANGED auxVars

\* lm.query raises and _execute carries on as if no response had been received
LMRaise_Swallowed ==
    /\ status = "running"
    /\ cur # NoOp
    /\ raisedAt' = cur
    /\ \E r \in {parse_generate_answer(heap, Head(pending), <<>>)} :
          /\ heap' = r.h
          /\ opThoughts' = [opThoughts EXCEPT ![cur] = @ \o r.ret]
    /\ pending' = <<>>
    /\ executed' = [executed EXCEPT ![cur] = TRUE]
    /\ cur' = NoOp
    /\ UNCHANGED <<prompt, promptFrom, responses, queries, status, final>>
    /\ UNCHANGED parseVars
    /\ UNCHANGED auxVars

\* lm.query raises: nothing in _execute catches it, main logs it and re-raises
LMRaise ==
    /\ status = "running"
    /\ cur # NoOp
    /\ status' = "aborted"
    /\ raisedAt' = cur
    /\ UNCHANGED <<heap, cur, pending, executed, opThoughts, prompt, promptFrom,
                   responses, queries, final>>
    /\ UNCHANGED parseVars
    /\ UNCHANGED auxVars

\* run() has returned: main takes the state of the last thought of the last phase
Finish ==
    /\ status = "running"
    /\ \A n \in Stages : executed[n]
    /\ status' = "done"
    /\ final' = IF opThoughts[2] = <<>> THEN 0 ELSE opThoughts[2][Len(opThoughts[2])]
    /\ UNCHANGED <<heap, cur, pending, executed, opThoughts, prompt, promptFrom,
                   responses, queries, raisedAt>>
    /\ UNCHANGED parseVars
    /\ UNCHANGED auxVars

Next ==
    \/ \E n \in Stages : Execute(n)
    \/ \E resp \in [1..NumBranchesResponse -> SampleTexts] : LMReturn(resp)
    \/ LMRaise
    \/ Finish

Spec == Init /\ [][Next]_vars

\* the run when the collaborator returns for every query
NextReturning ==
    \/ \E n \in Stages : Execute(n)
    \/ \E resp \in [1..NumBranchesResponse -> SampleTexts] : LMReturn(resp)
    \/ Finish

\* ENABLED <<NextReturning>>_vars: while run() goes on, an operation can be
\* executed, the pending lm.query can return, or run() can return, and each of
\* these steps changes the state
ReturningEnabled == status = "running"

\* weak fairness of NextReturning, WF_vars(NextReturning), with its ENABLED
\* predicate written out: run() executes the operations in a loop of its own and
\* is never suspended for ever
ReturningFair == []<>(~ReturningEnabled) \/ []<><<NextReturning>>_vars

SpecReturning == Init /\ [][NextReturning]_vars /\ ReturningFair

\* ------------------------------------------------------------------------
\* Properties of parse_generate_answer (SpecParse)
\* ------------------------------------------------------------------------

\* the stage index and the accumulated data of the thought passed in
ArgStage == before.th[arg].operation_index

ArgData == PrevState(before, arg)

\* the accumulated data of a thought in the current heap
DataOf(tid) == PrevState(heap, tid)

\* the responses that end in a successor, in response order
AcceptedTexts == SelectSeq(texts, LAMBDA t : Accepted(t, ArgStage))

\* the text has a "{" and a "}"
HasSpan(text) == Find(Strip(text), "{") # -1 /\ RFind(Strip(text), "}") # -1

\* the text has a span whose repaired JSON passes the stage's validation
Validates(text, oi) ==
    /\ HasSpan(text)
    /\ ResponseJson(text, oi).present
    /\ validate_json_structure(ResponseJson(text, oi).dict, oi)

NoneValidates == \A i \in 1..Len(texts) : ~Validates(texts[i], ArgStage)

ImpactKey == <<"impact_assessment">>

PlanKey == <<"response_plan">>

\* every key of d1 is a key of d2, with the same value unless it is key k
CarriedOver(d1, d2, k) ==
    \A x \in DictKeys(d1) : DictHas(d2, x) /\ (x # k => DictGet(d2, x) = DictGet(d1, x))

\* the data expected after merging response rj at stage oi into data
Merged(data, oi, rj) ==
    IF oi = 0 THEN rj
    ELSE IF oi = 1 THEN DictSet(data, ImpactKey, Dumps(rj))
    ELSE DictSet(data, PlanKey, Dumps(rj))

\* C1: for every stage, input state and response list, parse_generate_answer
\* returns at least one successor, and exactly one with stage index + 1 when no
\* response is accepted.
C1_NoAbort ==
    called =>
        /\ Len(ret) >= 1
        /\ AcceptedTexts = <<>> =>
              /\ Len(ret) = 1
              /\ heap.th[ret[1]].operation_index = ArgStage + 1

C1_Witness ==
    called /\ ArgStage = 2 /\ Len(texts) = 2 /\ AcceptedTexts = <<>>

\* C2 as stated: at every stage the successors' accumulated data has every key
\* of the prior accumulated data.
C2_KeysKeptEveryStage ==
    called => \A i \in 1..Len(ret) : DictKeys(ArgData) \subseteq DictKeys(DataOf(ret[i]))

\* C2 amended: stages 1 and 2, and a stage 0 that accepts nothing, carry every
\* prior key forward (only the stage's own key may get a new value); a response
\* accepted at stage 0 becomes the accumulated data, replacing the prior content.
C2_KeysKept ==
    called =>
        \A i \in 1..Len(ret) :
            IF ArgStage = 0 /\ AcceptedTexts # <<>>
            THEN DataOf(ret[i]) = ResponseJson(AcceptedTexts[i], 0).dict
            ELSE CarriedOver(ArgData, DataOf(ret[i]),
                             IF ArgStage = 1 THEN ImpactKey ELSE PlanKey)

C2_Witness ==
    called /\ ArgStage = 2 /\ ArgData = ImpactData /\ AcceptedTexts # <<>>

\* C3 as stated: after stage 1 every resulting state has every key present after
\* stage 0 and the key impact_assessment, whether or not a response validates.
C3_ImpactAlways ==
    (called /\ ArgStage = 1 /\ before.th[arg].state # NoState) =>
        \A i \in 1..Len(ret) :
            /\ DictKeys(ArgData) \subseteq DictKeys(DataOf(ret[i]))
            /\ DictHas(DataOf(ret[i]), ImpactKey)

\* C3 amended: after stage 1 every resulting state has every key present after
\* stage 0; it holds the accepted response under impact_assessment when a
\* response validates, and it is the stage-0 data unchanged when none does.
C3_ImpactWhenAccepted ==
    (called /\ ArgStage = 1) =>
        \A i \in 1..Len(ret) :
            /\ CarriedOver(ArgData, DataOf(ret[i]), ImpactKey)
            /\ IF AcceptedTexts = <<>>
               THEN DataOf(ret[i]) = ArgData
               ELSE /\ DictHas(DataOf(ret[i]), ImpactKey)
                    /\ DictGet(DataOf(ret[i]), ImpactKey)
                           = Dumps(ResponseJson(AcceptedTexts[i], 1).dict)

C3_Witness ==
    called /\ ArgStage = 1 /\ ArgData = SituationData /\ AcceptedTexts # <<>>

\* the accumulated data d has an entry written for stage oi
StageEntry(d, oi) ==
    IF oi = 0 THEN \E i \in 1..Len(basic_keys) : DictHas(d, <<basic_keys[i]>>)
    ELSE IF oi = 1 THEN DictHas(d, ImpactKey)
    ELSE DictHas(d, PlanKey)

\* C4 as stated: at every stage, when no response passes validation, the
\* successor has a fallback object for that stage in its accumulated data.
C4_FallbackMerged ==
    (called /\ NoneValidates) =>
        \A i \in 1..Len(ret) : StageEntry(DataOf(ret[i]), ArgStage)

\* the responses without a JSON span
SpanlessTexts == SelectSeq(texts, LAMBDA t : ~HasSpan(t))

\* C4 amended: when no response passes validation the single successor carries
\* the prior accumulated data unchanged and nothing is merged; the one fallback
\* object is that of stage 2, where each response without a JSON span is
\* replaced by the fixed emergency_level object and merged as response_plan.
C4_FallbackUnchanged ==
    (called /\ NoneValidates) =>
        IF ArgStage = 2 /\ SpanlessTexts # <<>>
        THEN /\ Len(ret) = Len(SpanlessTexts)
             /\ \A i \in 1..Len(ret) :
                    DataOf(ret[i]) = DictSet(ArgData, PlanKey, Dumps(MinimalLevel))
        ELSE /\ Len(ret) = 1
             /\ DataOf(ret[1]) = ArgData
             /\ heap.th[ret[1]].operation_index = ArgStage + 1

C4_Witness ==
    called /\ ArgStage = 1 /\ texts = <<TextProse>> /\ ArgData = SituationData

\* C5 as stated: when at least one response is accepted the stage yields exactly
\* one successor, built from the first accepted response.
C5_OneSuccessor ==
    (called /\ AcceptedTexts # <<>>) =>
        /\ Len(ret) = 1
        /\ DataOf(ret[1])
               = Merged(ArgData, ArgStage, ResponseJson(AcceptedTexts[1], ArgStage).dict)

\* C5 amended: when at least one response is accepted the stage yields one
\* successor per accepted response, in response order, the i-th built by merging
\* the i-th accepted response into a copy of the accumulated data.
C5_SuccessorPerAccepted ==
    (called /\ AcceptedTexts # <<>>) =>
        /\ Len(ret) = Len(AcceptedTexts)
        /\ \A i \in 1..Len(ret) :
              /\ DataOf(ret[i])
                     = Merged(ArgData, ArgStage, ResponseJson(AcceptedTexts[i], ArgStage).dict)
              /\ heap.th[ret[i]].operation_index = ArgStage + 1
              /\ heap.th[ret[i]].input_text = before.th[arg].input_text

C5_Witness ==
    /\ called
    /\ ArgStage = 2
    /\ Len(AcceptedTexts) = 2
    /\ AcceptedTexts[1] # AcceptedTexts[2]
    /\ Len(ret) = 2

\* C10: parse_generate_answer leaves the thought it is given, and the
\* accumulated data that thought refers to, as they were; every successor is a
\* new thought.
C10_InputUntouched ==
    called =>
        /\ \A id \in DOMAIN before.th : heap.th[id] = before.th[id]
        /\ \A d \in DOMAIN before.ds : heap.ds[d] = before.ds[d]
        /\ \A i \in 1..Len(ret) : ret[i] \notin DOMAIN before.th

C10_Witness ==
    /\ called
    /\ ArgStage = 1
    /\ ArgData = SituationData
    /\ AcceptedTexts # <<>>
    /\ DataOf(ret[1]) # ArgData

\* ------------------------------------------------------------------------
\* Properties of the run (Spec, SpecReturning)
\* ------------------------------------------------------------------------

C7_PromptFromPredecessor ==
    \A n \in 1..2 :
        /\ (cur = n \/ executed[n] \/ queries[n] > 0) => executed[n - 1]
        /\ promptFrom[n] # 0 =>
              /\ \E i \in 1..Len(opThoughts[n - 1]) : opThoughts[n - 1][i] = promptFrom[n]
              /\ prompt[n] = generate_prompt(heap, promptFrom[n], n)

C7_Witness ==
    /\ promptFrom[2] # 0
    /\ DictHas(DataOf(promptFrom[2]), ImpactKey)
    /\ DictHas(DataOf(promptFrom[2]), <<"basic_info">>)

\* C8: when the collaborator returns for every query, the run from stage 0 and
\* empty data terminates after each stage has queried exactly once, and delivers
\* the state left by stage 2.
C8_Terminates ==
    <>(/\ status = "done"
       /\ \A n \in Stages : executed[n] /\ queries[n] = 1 /\ Len(opThoughts[n]) = 1
       /\ final # 0
       /\ final = opThoughts[2][1])

C8_Witness ==
    /\ status = "done"
    /\ final # 0
    /\ \A n \in Stages : queries[n] = 1
    /\ DictHas(DataOf(final), PlanKey)

\* C9 as stated: every state the run produces has a stage index in 0..2.
C9_IndexUpToTwo ==
    \A id \in DOMAIN heap.th : heap.th[id].operation_index \in 0..2

\* C9 amended: every state the run produces has a stage index in 0..3: the
\* states stage n produces carry n + 1 (3 after stage 2), one more than the
\* state they were produced from, so the index never decreases.
C9_IndexUpToThree ==
    /\ \A id \in DOMAIN heap.th : heap.th[id].operation_index \in 0..3
    /\ \A n \in Stages :
          /\ \A i \in 1..Len(opThoughts[n]) : heap.th[opThoughts[n][i]].operation_index = n + 1
          /\ promptFrom[n] # 0 => heap.th[promptFrom[n]].operation_index = n

C9_Witness ==
    final # 0 /\ heap.th[final].operation_index = 3

\* ------------------------------------------------------------------------
\* Properties of the JSON extraction of one response (SpecParse)
\* ------------------------------------------------------------------------

\* the first "{" of the stripped text comes before its last "}"
ProperSpan(text) ==
    /\ HasSpan(text)
    /\ Find(Strip(text), "{") < RFind(Strip(text), "}")

\* what a call leaves behind: stage index and accumulated data of each successor
Outcome(h, thoughts) ==
    [i \in 1..Len(thoughts) |->
        <<h.th[thoughts[i]].operation_index, PrevState(h, thoughts[i])>>]

\* the outcome of the same call made with the response list ts instead
OutcomeWith(ts) ==
    With(parse_generate_answer(before, arg, ts), LAMBDA r : Outcome(r.h, r.ret))

\* C11: a response without a "{" before a "}" (no brace at all, or the last "}"
\* before the first "{") is "no JSON found": the call ends as it does for a
\* response without any brace.
C11_NoSpanLikeBraceless ==
    (called /\ Len(texts) = 1 /\ ~ProperSpan(texts[1])) =>
        Outcome(heap, ret) = OutcomeWith(<<TextProse>>)

\* ------------------------------------------------------------------------
\* One response through the extraction (lines 1193-1200) and the steps of
\* attempt_fix_truncated_json, applied to any text
\* ------------------------------------------------------------------------

MaxLen == 3

\* the characters of the short texts
Sigma == {"{", "}", "[", "]", Q, ":", ",", " ", "x", "1"}

\* every text over Sigma of length 0..MaxLen
ShortTexts == UNION {[1..n -> Sigma] : n \in 0..MaxLen}

\* {"emergency_level":{"level":"I"},"x":[1]}
TextCompact ==
    <<"{">> \o K("emergency_level") \o <<":", "{">> \o K("level") \o <<":">> \o K("I")
    \o <<"}", ",">> \o K("x") \o <<":", "[", "1", "]", "}">>

\* [{"x": 1}]
TextArray == <<"[", "{">> \o K("x") \o <<":", " ", "1", "}", "]">>

\* {"x":[1,{"x":null}]}
TextNested ==
    <<"{">> \o K("x") \o <<":", "[", "1", ",", "{">> \o K("x") \o <<":", "null", "}", "]", "}">>

\* a document cut anywhere
Prefixes(d) == {SubSeq(d, 1, n) : n \in 0..Len(d)}

RepairInputs ==
    ShortTexts \cup SampleTexts \cup {TextArray, <<" ">> \o TextOther \o <<" ">>}
    \cup Prefixes(TextPlan) \cup Prefixes(TextCompact) \cup Prefixes(TextNested)
    \cup Prefixes(TextTruncated) \cup Prefixes(TextSituation)

\* the variables of the call and of the run while one text is repaired
IdleRun ==
    /\ heap = [th |-> <<>>, ds |-> <<>>]
    /\ arg = 0
    /\ texts = <<>>
    /\ before = heap
    /\ ret = <<>>
    /\ called = FALSE
    /\ status = "idle"
    /\ cur = NoOp
    /\ pending = <<>>
    /\ executed = [n \in Stages |-> FALSE]
    /\ opThoughts = [n \in Stages |-> <<>>]
    /\ prompt = [n \in Stages |-> <<>>]
    /\ promptFrom = [n \in Stages |-> 0]
    /\ responses = [n \in Stages |-> <<>>]
    /\ queries = [n \in Stages |-> 0]
    /\ raisedAt = NoOp
    /\ final = 0

\* parse_generate_answer at stage operation_index with a response text about to
\* be searched for its JSON span ("extract"), or about to call
\* attempt_fix_truncated_json on a text ("call")
InitRepair ==
    /\ IdleRun
    /\ val = ValOff
    /\ fin = FinOff
    /\ lm = LMOff
    /\ \E p \in {"extract", "call"}, t \in RepairInputs, oi \in Stages :
          fix = [pc |-> p, operation_index |-> oi, text |-> t,
                 json_text |-> IF p = "call" THEN t ELSE <<>>,
                 extracted |-> FALSE, closed |-> <<>>, out |-> <<>>, by |-> "none",
                 again |-> <<>>]

Returned(out, by) == [fix EXCEPT !.pc = "returned", !.out = out, !.by = by]

\* lines 1193-1200: strip, find, rfind, slice
Extract ==
    /\ fix.pc = "extract"
    /\ \E span \in {JsonSpan(Strip(fix.text))} :
          fix' = IF span.found
                 THEN [fix EXCEPT !.pc = "call", !.extracted = TRUE,
                                  !.json_text = span.group]
                 ELSE [fix EXCEPT !.pc = "nospan", !.extracted = TRUE]
    /\ UNCHANGED <<heap, val, fin, lm>>
    /\ UNCHANGED <<parseVars, runVars>>

\* a failed direct parse goes on to the bracket scan, past the field blocks
TryDirect_SkipFields ==
    /\ fix.pc = "call"
    /\ fix' = IF Loads(fix.json_text).ok
              THEN Returned(fix.json_text, "direct")
              ELSE [fix EXCEPT !.pc = "brackets"]
    /\ UNCHANGED <<heap, val, fin, lm>>
    /\ UNCHANGED <<parseVars, runVars>>

\* lines 788-791: json.loads(json_text); return json_text
TryDirect ==
    /\ fix.pc = "call"
    /\ fix' = IF Loads(fix.json_text).ok
              THEN Returned(fix.json_text, "direct")
              ELSE [fix EXCEPT !.pc = "fields"]
    /\ UNCHANGED <<heap, val, fin, lm>>
    /\ UNCHANGED <<parseVars, runVars>>

\* lines 794-1043: the field blocks, then return json.dumps(complete_fields)
TryFields ==
    /\ fix.pc = "fields"
    /\ \E complete_fields \in {ExtractFields(<<>>, fix.json_text, RepairFields)} :
          fix' = IF complete_fields # <<>>
                 THEN Returned(Dumps(complete_fields), "fields")
                 ELSE [fix EXCEPT !.pc = "brackets"]
    /\ UNCHANGED <<heap, val, fin, lm>>
    /\ UNCHANGED <<parseVars, runVars>>

\* lines 1046-1060: the bracket scan and the closers appended
Close ==
    /\ fix.pc = "brackets"
    /\ fix' = [fix EXCEPT !.pc = "fixups", !.closed = CloseBrackets(fix.json_text)]
    /\ UNCHANGED <<heap, val, fin, lm>>
    /\ UNCHANGED <<parseVars, runVars>>

\* the fixed text is returned without the json.loads test
TryStructural_Unchecked ==
    /\ fix.pc = "fixups"
    /\ fix' = Returned(Fixups(fix.closed), "structural")
    /\ UNCHANGED <<heap, val, fin, lm>>
    /\ UNCHANGED <<parseVars, runVars>>

\* lines 1064-1077: the fixups, json.loads(fixed_json); return fixed_json
TryStructural ==
    /\ fix.pc = "fixups"
    /\ \E fixed_json \in {Fixups(fix.closed)} :
          fix' = IF Loads(fixed_json).ok
                 THEN Returned(fixed_json, "structural")
                 ELSE [fix EXCEPT !.pc = "fallback"]
    /\ UNCHANGED <<heap, val, fin, lm>>
    /\ UNCHANGED <<parseVars, runVars>>

\* lines 1078-1085: the minimal emergency_level object, or '{}'
Fallback ==
    /\ fix.pc = "fallback"
    /\ fix' = Returned(IF Contains(fix.json_text, <<Q, "emergency_level", Q>>)
                       THEN MinimalLevelText
                       ELSE <<"{", "}">>, "fallback")
    /\ UNCHANGED <<heap, val, fin, lm>>
    /\ UNCHANGED <<parseVars, runVars>>

\* lines 778-1085 once more: attempt_fix_truncated_json called on the text
\* that the first call returned
Again ==
    /\ fix.pc = "returned"
    /\ fix' = [fix EXCEPT !.pc = "again", !.again = attempt_fix_truncated_json(fix.out)]
    /\ UNCHANGED <<heap, val, fin, lm>>
    /\ UNCHANGED <<parseVars, runVars>>

NextRepair ==
    \/ Extract
    \/ TryDirect
    \/ TryFields
    \/ Close
    \/ TryStructural
    \/ Fallback
    \/ Again

SpecRepair == InitRepair /\ [][NextRepair]_vars

\* the steps return what the function returns
RepairSteps == fix.pc = "returned" => fix.out = attempt_fix_truncated_json(fix.json_text)

\* ------------------------------------------------------------------------
\* Properties of the extraction and of attempt_fix_truncated_json (SpecRepair)
\* ------------------------------------------------------------------------

\* the extraction has been applied to fix.text
Extracted == fix.pc # "off" /\ fix.extracted

\* the extraction found a span and the span is the whole text
SameString == fix.pc # "nospan" /\ fix.json_text = fix.text

\* C12 as stated: for every string that is a valid JSON document, the
\* extraction returns that same string unchanged.
C12_DocumentUnchanged == (Extracted /\ Loads(fix.text).ok) => SameString

\* C12: for every string that is a valid JSON document whose value is an
\* object and that has no leading or trailing whitespace, the extraction
\* returns that same string unchanged.
C12_ObjectUnchanged ==
    (Extracted /\ Loads(fix.text).ok /\ Loads(fix.text).kind = "object"
     /\ Strip(fix.text) = fix.text) => SameString

\* a non-empty nested object has been extracted from its own text
C12_Witness ==
    /\ Extracted
    /\ fix.text = TextPlan
    /\ Loads(fix.text).kind = "object"
    /\ fix.json_text = fix.text

\* attempt_fix_truncated_json has returned
HasReturned == fix.pc = "returned"

\* leading whitespace aside, the text is empty or starts with "{"
StartsObject(s) == SkipWS(s, 1) > Len(s) \/ s[SkipWS(s, 1)] = "{"

\* the returned text parses to a JSON mapping
ReturnsMapping == Loads(fix.out).ok /\ Loads(fix.out).kind = "object"

DirectOk(s) == Loads(s).ok

FieldsOf(s) == ExtractFields(<<>>, s, RepairFields)

StructuralOk(s) == Loads(StructuralRepair(s)).ok

FallbackText(s) ==
    IF Contains(s, <<Q, "emergency_level", Q>>) THEN MinimalLevelText ELSE <<"{", "}">>

\* C14: attempt_fix_truncated_json returns the result of the earliest step that
\* succeeds, in the order direct parse, field extraction, structural repair,
\* terminal fallback.
C14_EarliestStep ==
    HasReturned =>
        IF DirectOk(fix.json_text)
        THEN fix.by = "direct" /\ fix.out = fix.json_text
        ELSE IF FieldsOf(fix.json_text) # <<>>
        THEN fix.by = "fields" /\ fix.out = Dumps(FieldsOf(fix.json_text))
        ELSE IF StructuralOk(fix.json_text)
        THEN fix.by = "structural" /\ fix.out = StructuralRepair(fix.json_text)
        ELSE fix.by = "fallback" /\ fix.out = FallbackText(fix.json_text)

\* the field extraction has returned for a text that the structural repair
\* would have made parseable too
C14_Witness ==
    /\ HasReturned
    /\ fix.by = "fields"
    /\ StructuralOk(fix.json_text)
    /\ StructuralRepair(fix.json_text) # fix.out

\* the stage's own fields as field blocks of the plain kind
StageFields(operation_index) ==
    IF operation_index = 0
    THEN [i \in 1..Len(basic_keys) |-> FieldSpec(basic_keys[i], FALSE, <<>>, "none", "")]
    ELSE IF operation_index = 1
    THEN [i \in 1..Len(impact_keys) |-> FieldSpec(impact_keys[i], FALSE, <<>>, "none", "")]
    ELSE RepairFields

\* the ten field names of the response plan
PlanFieldNames ==
    {<<"emergency_level">>, <<"evacuation_plan">>, <<"onsite_response">>,
     <<"medical_response">>, <<"environmental_monitoring">>, <<"resource_allocation">>,
     <<"information_management">>, <<"recovery_plan">>,
     <<"secondary_disaster_prevention">>, <<"special_material_handling">>}

\* the field extraction has run on a text that does not parse as it is
FieldsTried == HasReturned /\ ~DirectOk(fix.json_text)

\* C15 as stated: the field extraction searches the field names of the stage
\* being parsed; it returns exactly when a field of that stage is recovered,
\* and returns the fields of that stage.
C15_StageFieldsSearched ==
    FieldsTried =>
        With(ExtractFields(<<>>, fix.json_text, StageFields(fix.operation_index)),
             LAMBDA stage_fields :
                 IF stage_fields # <<>>
                 THEN fix.by = "fields" /\ fix.out = Dumps(stage_fields)
                 ELSE fix.by # "fields")

\* C15: at every stage the field extraction searches the same ten field names
\* of the response plan; it returns exactly when one of them is recovered, and
\* what it returns has only those names as keys, whatever the stage.
C15_PlanFieldsSearched ==
    FieldsTried =>
        /\ fix.by = "fields" <=>
              \E i \in 1..Len(RepairFields) :
                  ExtractField(<<>>, fix.json_text, RepairFields[i]) # <<>>
        /\ fix.by = "fields" =>
              /\ DictKeys(Loads(fix.out).dict) # {}
              /\ DictKeys(Loads(fix.out).dict) \subseteq PlanFieldNames

\* at stage 0 a text with a complete basic_info field has gone past the field
\* extraction and ended in the terminal fallback
C15_Witness ==
    /\ FieldsTried
    /\ fix.operation_index = 0
    /\ SearchNested(fix.json_text, "basic_info").found
    /\ Loads(WrapField("basic_info",
                       <<"{">> \o SearchNested(fix.json_text, "basic_info").group \o <<"}">>)).ok
    /\ fix.by = "fallback"

\* the bracket scan has run and fix.closed is the text with the closers appended
HasClosed ==
    \/ fix.pc \in {"fixups", "fallback"}
    \/ HasReturned /\ fix.by \in {"structural", "fallback"}

\* the closers pending after the scan of the text, bottom of the stack first
Pending == BracketsStack(fix.json_text, 1, <<>>)

\* C16: the bracket completion yields the original text followed by the
\* pending closers, last opened first, and scanning the completed text with
\* the same stack discipline ends with an empty stack.
C16_ClosedLIFO ==
    HasClosed =>
        /\ Len(fix.closed) = Len(fix.json_text) + Len(Pending)
        /\ SubSeq(fix.closed, 1, Len(fix.json_text)) = fix.json_text
        /\ \A i \in 1..Len(Pending) :
              fix.closed[Len(fix.json_text) + i] = Pending[Len(Pending) + 1 - i]
        /\ BracketsStack(fix.closed, 1, <<>>) = <<>>

\* a text with a closer that does not match the top of the stack and two
\* different closers pending
C16_Witness ==
    /\ HasClosed
    /\ fix.json_text = <<"{", "[", "}">>
    /\ Pending = <<"}", "]">>
    /\ fix.closed = <<"{", "[", "}", "]", "}">>

\* ------------------------------------------------------------------------
\* validate_json_structure applied to any object at any stage
\* ------------------------------------------------------------------------

MaxKeys == 3

\* the number of keys added to one object
MaxAdded == 2

\* the keys an object may have: the expected keys of the three stages, a key
\* no stage expects, and an expected key in another case
KeyUniverse == basic_keys \o impact_keys \o plan_keys \o <<"x", "Basic_info">>

\* the object with the keys of the set ks, each with the value {}
ObjectOf(ks) ==
    [i \in 1..Len(SelectSeq(KeyUniverse, LAMBDA k : k \in ks)) |->
        << <<SelectSeq(KeyUniverse, LAMBDA k : k \in ks)[i]>>, <<"{", "}">> >>]

\* the objects of at most MaxKeys keys
SampleObjects ==
    {ObjectOf(ks) : ks \in {x \in SUBSET {KeyUniverse[i] : i \in 1..Len(KeyUniverse)} :
                                Cardinality(x) <= MaxKeys}}

\* the operation indices validate_json_structure is called with, and one more
ValidateIndices == 0..3

ValRec(oi, text, d) ==
    [pc |-> "ready", operation_index |-> oi, text |-> text, json_data |-> d,
     result |-> FALSE, added |-> 0, was |-> FALSE]

\* an object about to be validated: one of the sample objects, or the object
\* parse_generate_answer has parsed from a sample text
InitValidate ==
    /\ IdleRun
    /\ fix = FixOff
    /\ fin = FinOff
    /\ lm = LMOff
    /\ \/ \E oi \in ValidateIndices, d \in SampleObjects : val = ValRec(oi, <<>>, d)
       \/ \E oi \in Stages, t \in SampleTexts :
             /\ ResponseJson(t, oi).present
             /\ val = ValRec(oi, t, ResponseJson(t, oi).dict)

\* the expected keys of the stage, none for an unknown index
ExpectedKeys(operation_index) ==
    IF operation_index = 0 THEN basic_keys
    ELSE IF operation_index = 1 THEN impact_keys
    ELSE IF operation_index = 2 THEN plan_keys
    ELSE <<>>

\* self.validate_json_structure(response_json, operation_index)
Validate ==
    /\ val.pc = "ready"
    /\ val' = [val EXCEPT !.pc = "validated",
                          !.result = validate_json_structure(val.json_data,
                                                             val.operation_index)]
    /\ UNCHANGED <<heap, fix, fin, lm>>
    /\ UNCHANGED <<parseVars, runVars>>

\* one more expected key of the stage is put into the object, which is
\* validated again
AddKey(k) ==
    /\ val.pc = "validated"
    /\ val.added < MaxAdded
    /\ ~DictHas(val.json_data, <<k>>)
    /\ \E d \in {DictSet(val.json_data, <<k>>, <<"{", "}">>)} :
          val' = [val EXCEPT !.json_data = d,
                             !.was = val.result,
                             !.added = val.added + 1,
                             !.result = validate_json_structure(d, val.operation_index)]
    /\ UNCHANGED <<heap, fix, fin, lm>>
    /\ UNCHANGED <<parseVars, runVars>>

NextValidate ==
    \/ Validate
    \/ \E i \in 1..Len(ExpectedKeys(val.operation_index)) :
          AddKey(ExpectedKeys(val.operation_index)[i])

SpecValidate == InitValidate /\ [][NextValidate]_vars

\* ------------------------------------------------------------------------
\* Properties of validate_json_structure (SpecValidate)
\* ------------------------------------------------------------------------

Validated == val.pc = "validated"

\* the expected top-level keys of each stage and the number of them required
StageKeySet(operation_index) ==
    IF operation_index = 0
    THEN {"basic_info", "accident_info", "weather_conditions", "geographical_info",
          "sensitive_targets"}
    ELSE IF operation_index = 1
    THEN {"dispersion_prediction", "population_impact", "environmental_impact",
          "secondary_disasters", "social_impact"}
    ELSE {"emergency_level", "evacuation_plan", "onsite_response", "medical_response",
          "environmental_monitoring", "resource_allocation", "information_management",
          "recovery_plan"}

StageThreshold(operation_index) ==
    IF operation_index = 0 THEN 3 ELSE IF operation_index = 1 THEN 2 ELSE 1

\* the number of the stage's expected keys among the top-level keys of d
Matched(d, operation_index) ==
    Cardinality({k \in StageKeySet(operation_index) : <<k>> \in DictKeys(d)})

\* C17: at stages 0, 1 and 2 validate_json_structure returns true exactly when
\* the object is non-empty and holds at least 3 of the 5 stage-0 keys, 2 of the
\* 5 stage-1 keys, 1 of the 8 stage-2 keys (exact match); so the object of a
\* prose-wrapped response with three stage-0 keys is accepted at stage 0.
C17_ThresholdExactly ==
    (Validated /\ val.operation_index \in Stages) =>
        /\ val.result <=>
              /\ val.json_data # <<>>
              /\ Matched(val.json_data, val.operation_index)
                    >= StageThreshold(val.operation_index)
        /\ (val.text = TextSituation /\ val.operation_index = 0 /\ val.added = 0) =>
              /\ Matched(val.json_data, 0) = 3
              /\ val.result

\* the object parsed from the prose-wrapped stage-0 response has passed
C17_Witness ==
    /\ Validated
    /\ val.operation_index = 0
    /\ val.text = TextSituation
    /\ DictKeys(val.json_data)
          = {<<"basic_info">>, <<"accident_info">>, <<"weather_conditions">>}
    /\ val.result

\* C18: for every stage and every object that passes validation, the object
\* with further expected keys of that stage added still passes.
C18_Monotone == (Validated /\ val.added > 0 /\ val.was) => val.result

\* a passing object with three of the stage-0 keys has got a fourth and passes
C18_Witness ==
    /\ Validated
    /\ val.operation_index = 0
    /\ val.added = 1
    /\ val.was
    /\ Matched(val.json_data, 0) = 4
    /\ val.result

\* ------------------------------------------------------------------------
\* Responses that parse but fail validation (SpecParse)
\* ------------------------------------------------------------------------

\* the text has a span whose repaired JSON parses and fails the stage's validation
ParsesButInvalid(text, oi) ==
    /\ HasSpan(text)
    /\ ResponseJson(text, oi).present
    /\ ~validate_json_structure(ResponseJson(text, oi).dict, oi)

\* the call was made with one response, which parses and fails validation
OneInvalid == called /\ Len(texts) = 1 /\ ParsesButInvalid(texts[1], ArgStage)

\* C19 as stated: at every stage a single response that parses but fails
\* validation leads to the same successor (accumulated data and stage index)
\* as a single response in which no JSON span is found.
C19_InvalidLikeSpanless == OneInvalid => Outcome(heap, ret) = OutcomeWith(<<TextProse>>)

\* C19: at stages 0 and 1 a single response that parses but fails validation
\* leads to the same successor as a single response without a JSON span; at
\* stage 2 both successors have stage index 3, but the first keeps the prior
\* accumulated data unchanged while the second has the fixed emergency_level
\* object merged as response_plan.
C19_InvalidLikeSpanlessBeforePlan ==
    OneInvalid =>
        IF ArgStage \in {0, 1}
        THEN Outcome(heap, ret) = OutcomeWith(<<TextProse>>)
        ELSE /\ Outcome(heap, ret) = << <<3, ArgData>> >>
             /\ OutcomeWith(<<TextProse>>)
                   = << <<3, DictSet(ArgData, PlanKey, Dumps(MinimalLevel))>> >>

\* a stage-0 response with two of the stage's keys has been parsed and rejected
\* on a state that holds data
C19_Witness ==
    /\ OneInvalid
    /\ ArgStage = 0
    /\ texts = <<TextTwoKeys>>
    /\ ArgData # <<>>
    /\ Outcome(heap, ret) = << <<1, ArgData>> >>

\* ------------------------------------------------------------------------
\* The emergency_level object cut inside a string value (SpecParse)
\* ------------------------------------------------------------------------

\* the number of quotes in s
RECURSIVE Quotes(_)
Quotes(s) == IF s = <<>> THEN 0 ELSE (IF Head(s) = Q THEN 1 ELSE 0) + Quotes(Tail(s))

\* the text starts an emergency_level object, has a string left open and no "}"
TruncatedLevel(text) ==
    /\ Len(text) > 5
    /\ SubSeq(text, 1, 5) = <<"{", Q, "emergency_level", Q, ":">>
    /\ Quotes(text) % 2 = 1
    /\ Find(text, "}") = -1

\* stage 2 was called with one response, an emergency_level object cut inside
\* a string
OneTruncated ==
    called /\ ArgStage = 2 /\ Len(texts) = 1 /\ TruncatedLevel(texts[1])

\* the successor is at index 3 and its response_plan has emergency_level
PlanHasLevel ==
    /\ Len(ret) = 1
    /\ heap.th[ret[1]].operation_index = 3
    /\ DictHas(DataOf(ret[1]), PlanKey)
    /\ DictHas(Loads(DictGet(DataOf(ret[1]), PlanKey)).dict, <<"emergency_level">>)

MaxResults == 4

\* the thought states a stage can end with, as far as process_results reads them
StageResults == {[state |-> d] : d \in PriorData}

\* the result lists of length 0..MaxResults
ResultLists == UNION {[1..n -> StageResults] : n \in 0..MaxResults}

\* the three states are taken whenever there are at least three results
process_results_AtLeast(result) ==
    IF Len(result) < 3
    THEN [raised |-> TRUE, value |-> <<>>]
    ELSE [raised |-> FALSE,
          value |-> [situation_analysis |-> result[1].state,
                     impact_assessment |-> result[2].state,
                     response_plan |-> result[3].state]]

\* if len(result) != 3: raise ValueError(...); return EmergencyResponse(...)
process_results(result) ==
    IF Len(result) # 3
    THEN [raised |-> TRUE, value |-> <<>>]
    ELSE [raised |-> FALSE,
          value |-> [situation_analysis |-> result[1].state,
                     impact_assessment |-> result[2].state,
                     response_plan |-> result[3].state]]

InitResults ==
    /\ IdleRun
    /\ fix = FixOff
    /\ val = ValOff
    /\ lm = LMOff
    /\ \E result \in ResultLists :
          fin = [pc |-> "call", result |-> result, raised |-> FALSE, value |-> <<>>]

ProcessResults ==
    /\ fin.pc = "call"
    /\ \E r \in {process_results(fin.result)} :
          fin' = [fin EXCEPT !.pc = "left", !.raised = r.raised, !.value = r.value]
    /\ UNCHANGED <<heap, fix, val, lm>>
    /\ UNCHANGED <<parseVars, runVars>>

NextResults == ProcessResults

SpecResults == InitResults /\ [][NextResults]_vars

\* ------------------------------------------------------------------------
\* Properties of process_results (SpecResults)
\* ------------------------------------------------------------------------

\* process_results has returned or raised
ResultsLeft == fin.pc = "left"

\* the three stage states in order
ThreeStates ==
    /\ fin.value.situation_analysis = fin.result[1].state
    /\ fin.value.impact_assessment = fin.result[2].state
    /\ fin.value.response_plan = fin.result[3].state

\* C21 as stated: process_results raises exactly when fewer than three stage
\* results are supplied, and otherwise returns the three stage states in order.
C21_RaisesWhenFewer ==
    ResultsLeft =>
        /\ fin.raised <=> Len(fin.result) < 3
        /\ ~fin.raised => ThreeStates

\* C21: process_results raises exactly when the number of stage results
\* supplied is not three, fewer or more, and otherwise returns the three
\* stage states in order.
C21_RaisesUnlessThree ==
    ResultsLeft =>
        /\ fin.raised <=> Len(fin.result) # 3
        /\ ~fin.raised => ThreeStates

\* four results have been supplied and refused
C21_Witness == ResultsLeft /\ Len(fin.result) = 4 /\ fin.raised

\* ------------------------------------------------------------------------
\* The language models: DeepSeek (deepseek.py) and DeepSeekOfficial
\* (deepseekofficial.py), one object serving queries
\* ------------------------------------------------------------------------

\* self.max_concurrent = 10
max_concurrent == 10

\* the responses asked of one object, over all its queries
MaxRequests == 11

\* the queries made to one object
MaxQueries == 2

\* the responses asked of one object that is queried more than once
MaxRepeated == 5

Prompts == {"p", "q"}

\* a ChatCompletion: the request that produced it and its number of choices
Completion(id, n) == [id |-> id, choices |-> n]

\* response.usage of the completion of request i
Usage(i) == [prompt_tokens |-> 2, completion_tokens |-> 1 + (i % 2)]

\* a Python value that is one ChatCompletion, or a list of them
One(r) == [isList |-> FALSE, items |-> <<r>>]

ListOf(rs) == [isList |-> TRUE, items |-> rs]

RECURSIVE ChoiceTexts(_, _)
\* [choice.message.content for choice in response.choices], from choice j on
ChoiceTexts(response, j) ==
    IF j > response.choices THEN <<>>
    ELSE <<<<response.id, j>>>> \o ChoiceTexts(response, j + 1)

RECURSIVE AllChoiceTexts(_)
AllChoiceTexts(rs) ==
    IF rs = <<>> THEN <<>> ELSE ChoiceTexts(Head(rs), 1) \o AllChoiceTexts(Tail(rs))

\* if not isinstance(query_response, List): query_response = [query_response];
\* then the contents of all choices of all responses
get_response_texts(query_response) == AllChoiceTexts(query_response.items)

\* an entry of response_cache; absent entries have hit = FALSE
NoEntry == [hit |-> FALSE, value |-> ListOf(<<>>)]

Entry(v) == [hit |-> TRUE, value |-> v]

\* a new object: nothing cached, no tokens counted, no query made
InitLM ==
    /\ IdleRun
    /\ fix = FixOff
    /\ val = ValOff
    /\ fin = FinOff
    /\ \E m \in {"DeepSeek", "DeepSeekOfficial"}, c \in BOOLEAN :
          lm = [model |-> m, cache |-> c, response_cache |-> [q \in Prompts |-> NoEntry],
                prompt_tokens |-> 0, completion_tokens |-> 0,
                pc |-> "idle", queries |-> 0, asked |-> 0, chats |-> 0,
                query |-> "p", num_responses |-> 0, fromCache |-> FALSE,
                tokensBefore |-> <<0, 0>>, chatsBefore |-> 0,
                tasks |-> <<>>, semaphore |-> 0, responses |-> <<>>,
                remaining |-> 0, next_try |-> 0, total_num_attempts |-> 0,
                out |-> NoEntry.value, delivered |-> [q \in Prompts |-> NoEntry]]

\* the caller is outside query()
Outside == lm.pc \in {"idle", "returned", "raised"}

\* query(query, num_responses) is entered: the fields every call starts from
Entered(query, num_responses) ==
    [lm EXCEPT !.query = query, !.num_responses = num_responses,
               !.queries = @ + 1, !.asked = @ + num_responses,
               !.tokensBefore = <<lm.prompt_tokens, lm.completion_tokens>>,
               !.chatsBefore = lm.chats, !.fromCache = FALSE,
               !.tasks = <<>>, !.responses = <<>>]

\* query() returns value v: the caller has it, and what it was given for this
\* prompt is remembered
Deliver(l, v) ==
    [l EXCEPT !.pc = "returned", !.out = v,
              !.delivered = [@ EXCEPT ![l.query] = Entry(v)]]

CanAsk(num_responses) ==
    /\ Outside
    /\ lm.queries < MaxQueries
    /\ lm.asked + num_responses <= (IF lm.queries = 0 THEN MaxRequests ELSE MaxRepeated)

\* the first query of an object is for prompt "p"
FirstPrompt(q) == lm.queries = 0 => q = "p"

\* of the cached list only the completions of the first num_responses requests are returned
CacheHit_Sliced(query, num_responses) ==
    /\ CanAsk(num_responses)
    /\ lm.cache /\ lm.response_cache[query].hit
    /\ lm' = [Deliver(Entered(query, num_responses),
                      ListOf(SelectSeq(lm.response_cache[query].value.items,
                                      LAMBDA r : r.id[2] <= num_responses)))
                 EXCEPT !.fromCache = TRUE]
    /\ UNCHANGED <<heap, fix, val, fin>>
    /\ UNCHANGED <<parseVars, runVars>>

\* lines 111-112 and 74-75: the cached value is returned
CacheHit(query, num_responses) ==
    /\ CanAsk(num_responses)
    /\ lm.cache /\ lm.response_cache[query].hit
    /\ lm' = [Deliver(Entered(query, num_responses), lm.response_cache[query].value)
                 EXCEPT !.fromCache = TRUE]
    /\ UNCHANGED <<heap, fix, val, fin>>
    /\ UNCHANGED <<parseVars, runVars>>

\* the tasks that get the semaphore when they are first run
FirstRun(num_responses) ==
    IF num_responses < max_concurrent THEN num_responses ELSE max_concurrent

\* DeepSeek.query, lines 115-119 and 146-160: the semaphore and one task per
\* response asked for; at "await gather" the tasks run in creation order up to
\* their first suspension: the first max_concurrent of them take the semaphore
\* (line 189) and send their request (line 211), the others wait for it
DSQuery(query, num_responses) ==
    /\ CanAsk(num_responses)
    /\ FirstPrompt(query)
    /\ lm.model = "DeepSeek"
    /\ ~(lm.cache /\ lm.response_cache[query].hit)
    /\ lm' = [Entered(query, num_responses) EXCEPT
                 !.pc = "gather",
                 !.semaphore = max_concurrent - FirstRun(num_responses),
                 !.chats = @ + FirstRun(num_responses),
                 !.tasks = [i \in 1..num_responses |->
                               IF i <= max_concurrent THEN "inflight" ELSE "pending"]]
    /\ UNCHANGED <<heap, fix, val, fin>>
    /\ UNCHANGED <<parseVars, runVars>>

\* the tasks in a given state
TasksIn(st) == {i \in 1..Len(lm.tasks) : lm.tasks[i] = st}

\* line 189: a task that waited for the semaphore gets it, in creation order.
\* line 211: the request is sent
Acquire(i) ==
    /\ lm.pc = "gather"
    /\ lm.tasks[i] = "pending"
    /\ \A j \in 1..(i - 1) : lm.tasks[j] # "pending"
    /\ lm.semaphore > 0
    /\ lm' = [lm EXCEPT !.tasks[i] = "inflight", !.semaphore = @ - 1, !.chats = @ + 1]
    /\ UNCHANGED <<heap, fix, val, fin>>
    /\ UNCHANGED <<parseVars, runVars>>

\* the counters read when the query began are written back with the usage added
ChatReturn_Stale(i) ==
    /\ lm.pc = "gather"
    /\ lm.tasks[i] = "inflight"
    /\ lm' = [lm EXCEPT !.tasks[i] = "done", !.semaphore = @ + 1,
                        !.prompt_tokens = lm.tokensBefore[1] + Usage(i).prompt_tokens,
                        !.completion_tokens = lm.tokensBefore[2] + Usage(i).completion_tokens]
    /\ UNCHANGED <<heap, fix, val, fin>>
    /\ UNCHANGED <<parseVars, runVars>>

\* lines 211-232 and 189-190: the completion arrives, the usage is added to the
\* counters, the semaphore is released and the task ends with the completion
ChatReturn(i) ==
    /\ lm.pc = "gather"
    /\ lm.tasks[i] = "inflight"
    /\ lm' = [lm EXCEPT !.tasks[i] = "done", !.semaphore = @ + 1,
                        !.prompt_tokens = @ + Usage(i).prompt_tokens,
                        !.completion_tokens = @ + Usage(i).completion_tokens]
    /\ UNCHANGED <<heap, fix, val, fin>>
    /\ UNCHANGED <<parseVars, runVars>>

\* the semaphore is kept when the chat call raises
ChatFail_Held(i) ==
    /\ lm.pc = "gather"
    /\ lm.tasks[i] = "inflight"
    /\ lm' = [lm EXCEPT !.tasks[i] = "failed"]
    /\ UNCHANGED <<heap, fix, val, fin>>
    /\ UNCHANGED <<parseVars, runVars>>

\* lines 192-198 and 189-190: the chat call raises after its retries, the
\* semaphore is released and the task ends with the exception
ChatFail(i) ==
    /\ lm.pc = "gather"
    /\ lm.tasks[i] = "inflight"
    /\ lm' = [lm EXCEPT !.tasks[i] = "failed", !.semaphore = @ + 1]
    /\ UNCHANGED <<heap, fix, val, fin>>
    /\ UNCHANGED <<parseVars, runVars>>

\* the completions of the tasks that ended with one, in task order
Completed(l) ==
    [k \in 1..Len(SelectSeq([i \in 1..Len(l.tasks) |-> i], LAMBDA i : l.tasks[i] = "done")) |->
        Completion(<<l.queries, SelectSeq([i \in 1..Len(l.tasks) |-> i],
                                          LAMBDA i : l.tasks[i] = "done")[k]>>, 1)]

\* gather returns as soon as one task has ended
Gathered_Any ==
    /\ lm.pc = "gather"
    /\ \E i \in 1..Len(lm.tasks) : lm.tasks[i] \in {"done", "failed"}
    /\ \E rs \in {Completed(lm)} :
          lm' = IF rs = <<>>
                THEN [lm EXCEPT !.pc = "raised"]
                ELSE With([lm EXCEPT !.responses = rs,
                                     !.response_cache[lm.query] =
                                         IF lm.cache THEN Entry(ListOf(rs)) ELSE @],
                          LAMBDA l :
                              Deliver(l, IF Len(rs) = 1 THEN One(rs[1])
                                         ELSE ListOf(rs)))
    /\ UNCHANGED <<heap, fix, val, fin>>
    /\ UNCHANGED <<parseVars, runVars>>

\* lines 160-172 and 129-131: gather has every task's outcome; the exceptions
\* are dropped, "All requests failed" is raised when nothing is left; otherwise
\* the list is cached and responses[0] or the list is returned
Gathered ==
    /\ lm.pc = "gather"
    /\ \A i \in 1..Len(lm.tasks) : lm.tasks[i] \in {"done", "failed"}
    /\ \E rs \in {Completed(lm)} :
          lm' = IF rs = <<>>
                THEN [lm EXCEPT !.pc = "raised"]
                ELSE With([lm EXCEPT !.responses = rs,
                                     !.response_cache[lm.query] =
                                         IF lm.cache THEN Entry(ListOf(rs)) ELSE @],
                          LAMBDA l :
                              Deliver(l, IF Len(rs) = 1 THEN One(rs[1])
                                         ELSE ListOf(rs)))
    /\ UNCHANGED <<heap, fix, val, fin>>
    /\ UNCHANGED <<parseVars, runVars>>

NextDeepSeek ==
    \/ \E q \in Prompts, n \in 1..MaxRequests : CacheHit(q, n)
    \/ \E q \in Prompts, n \in 1..MaxRequests : DSQuery(q, n)
    \/ \E i \in 1..Len(lm.tasks) : Acquire(i)
    \/ \E i \in 1..Len(lm.tasks) : ChatReturn(i)
    \/ \E i \in 1..Len(lm.tasks) : ChatFail(i)
    \/ Gathered

InitDeepSeek == InitLM /\ lm.model = "DeepSeek"

SpecDeepSeek == InitDeepSeek /\ [][NextDeepSeek]_vars

\* the responses one DeepSeekOfficial query asks for
MaxSamples == 6

\* DeepSeekOfficial.query, lines 77-82: one chat call for one response,
\* otherwise the retry loop with its three counters
OffQuery(query, num_responses) ==
    /\ CanAsk(num_responses)
    /\ num_responses <= MaxSamples
    /\ FirstPrompt(query)
    /\ lm.model = "DeepSeekOfficial"
    /\ ~(lm.cache /\ lm.response_cache[query].hit)
    /\ lm' = IF num_responses = 1
             THEN [Entered(query, num_responses) EXCEPT !.pc = "single"]
             ELSE [Entered(query, num_responses) EXCEPT
                      !.pc = "loop", !.remaining = num_responses,
                      !.next_try = num_responses, !.total_num_attempts = num_responses]
    /\ UNCHANGED <<heap, fix, val, fin>>
    /\ UNCHANGED <<parseVars, runVars>>

\* the chat calls made by the query being served
CallsMade(l) == l.chats - l.chatsBefore

\* lines 115-136: the completion of a chat call for n choices, its usage counted
Chatted(l, n) ==
    [l EXCEPT !.chats = @ + 1,
              !.prompt_tokens = @ + Usage(CallsMade(l) + 1).prompt_tokens,
              !.completion_tokens = @ + Usage(CallsMade(l) + 1).completion_tokens,
              !.responses = Append(@, Completion(<<l.queries, CallsMade(l) + 1>>, n))]

\* what lines 98-100 leave: the value cached when caching is on, and returned
Returning(l, v) ==
    Deliver([l EXCEPT !.response_cache[l.query] = IF l.cache THEN Entry(v) ELSE @], v)

\* line 78 returns: response is the one completion
OffSingleOk ==
    /\ lm.pc = "single"
    /\ \E l \in {Chatted(lm, 1)} : lm' = Returning(l, One(l.responses[1]))
    /\ UNCHANGED <<heap, fix, val, fin>>
    /\ UNCHANGED <<parseVars, runVars>>

\* line 78 raises: nothing around it catches
OffSingleFail ==
    /\ lm.pc = "single"
    /\ lm' = [lm EXCEPT !.pc = "raised", !.chats = @ + 1]
    /\ UNCHANGED <<heap, fix, val, fin>>
    /\ UNCHANGED <<parseVars, runVars>>

\* line 83: while num_responses > 0 and total_num_attempts > 0
InLoop == lm.pc = "loop" /\ lm.remaining > 0 /\ lm.total_num_attempts > 0

\* lines 85-89: the assertion holds and the chat call returns next_try choices
OffChatOk ==
    /\ InLoop
    /\ lm.next_try > 0
    /\ \E l \in {Chatted(lm, lm.next_try)} :
          lm' = [l EXCEPT !.remaining = @ - lm.next_try,
                          !.next_try = IF lm.remaining - lm.next_try < lm.next_try
                                       THEN lm.remaining - lm.next_try
                                       ELSE lm.next_try]
    /\ UNCHANGED <<heap, fix, val, fin>>
    /\ UNCHANGED <<parseVars, runVars>>

\* next_try is halved rounding down
OffChatFail_Floor ==
    /\ InLoop
    /\ lm' = [lm EXCEPT !.chats = IF lm.next_try > 0 THEN @ + 1 ELSE @,
                        !.next_try = lm.next_try \div 2,
                        !.total_num_attempts = @ - 1]
    /\ UNCHANGED <<heap, fix, val, fin>>
    /\ UNCHANGED <<parseVars, runVars>>

\* a failed attempt is not counted
OffChatFail_NoCount ==
    /\ InLoop
    /\ lm' = [lm EXCEPT !.chats = IF lm.next_try > 0 THEN @ + 1 ELSE @,
                        !.next_try = (lm.next_try + 1) \div 2]
    /\ UNCHANGED <<heap, fix, val, fin>>
    /\ UNCHANGED <<parseVars, runVars>>

\* lines 90-96: the assertion or the chat call raises; the exception is caught,
\* next_try is halved rounding up and an attempt is used up
OffChatFail ==
    /\ InLoop
    /\ lm' = [lm EXCEPT !.chats = IF lm.next_try > 0 THEN @ + 1 ELSE @,
                        !.next_try = (lm.next_try + 1) \div 2,
                        !.total_num_attempts = @ - 1]
    /\ UNCHANGED <<heap, fix, val, fin>>
    /\ UNCHANGED <<parseVars, runVars>>

\* lines 83 and 98-100: the loop ends and the list is returned
OffExit ==
    /\ lm.pc = "loop"
    /\ ~InLoop
    /\ lm' = Returning(lm, ListOf(lm.responses))
    /\ UNCHANGED <<heap, fix, val, fin>>
    /\ UNCHANGED <<parseVars, runVars>>

\* one pass of the loop, or leaving it
OffLoop == OffChatOk \/ OffChatFail \/ OffExit

NextOfficial ==
    \/ \E q \in Prompts, n \in 1..MaxRequests : CacheHit(q, n)
    \/ \E q \in Prompts, n \in 1..MaxRequests : OffQuery(q, n)
    \/ OffSingleOk
    \/ OffSingleFail
    \/ OffChatOk
    \/ OffChatFail
    \/ OffExit

InitOfficial == InitLM /\ lm.model = "DeepSeekOfficial"

\* query() runs in the caller's thread: a pass of the loop that can be made is made
SpecOfficial == InitOfficial /\ [][NextOfficial]_vars /\ WF_vars(OffLoop)

\* either language model
NextLM == NextDeepSeek \/ NextOfficial

SpecLM == InitLM /\ [][NextLM]_vars

\* ------------------------------------------------------------------------
\* Properties of the language models (SpecLM, SpecDeepSeek, SpecOfficial)
\* ------------------------------------------------------------------------

\* query() has returned to the caller
QueryReturned == lm.pc = "returned"

\* get_response_texts applied to what query() returned
ReturnedTexts == get_response_texts(lm.out)

\* C22: a query for one or more responses followed by get_response_texts
\* yields at least one response text or raises; it never returns normally with
\* no text, for DeepSeek and for DeepSeekOfficial.
C22_TextOrRaise == (QueryReturned /\ lm.num_responses >= 1) => Len(ReturnedTexts) >= 1

\* a DeepSeek query that went to the API has come back to the caller
BackFromGather == lm.model = "DeepSeek" /\ lm.pc \in {"returned", "raised"} /\ ~lm.fromCache /\ lm.queries > 0

\* the requests of the query that ended with a completion, or with an exception
Succeeded == TasksIn("done")

Terminal == TasksIn("done") \cup TasksIn("failed")

\* the completions of the returned value come from this query's requests in
\* the order the requests were issued
InIssueOrder(items) ==
    /\ \A k \in 1..Len(items) : items[k].id[1] = lm.queries
    /\ \A k \in 1..(Len(items) - 1) : items[k].id[2] < items[k + 1].id[2]

\* C23: the async model returns or raises only after every one of the
\* num_responses requests has returned or failed; the value returned holds
\* exactly the completions of the requests that succeeded, in the order the
\* requests were issued, and it raises exactly when none succeeded.
C23_AfterAllTerminal ==
    BackFromGather =>
        /\ Len(lm.tasks) = lm.num_responses
        /\ Terminal = 1..lm.num_responses
        /\ lm.pc = "raised" <=> Succeeded = {}
        /\ lm.pc = "returned" =>
              /\ InIssueOrder(lm.out.items)
              /\ {lm.out.items[k].id[2] : k \in 1..Len(lm.out.items)} = Succeeded
              /\ Len(lm.out.items) = Cardinality(Succeeded)

\* three of five requests succeeded, the second and the fourth failed
C23_Witness ==
    /\ BackFromGather /\ lm.pc = "returned" /\ lm.num_responses = 5
    /\ TasksIn("failed") = {2, 4}
    /\ get_response_texts(lm.out) = <<<<<<1, 1>>, 1>>, <<<<1, 3>>, 1>>, <<<<1, 5>>, 1>>>>

\* the chat requests of the running query that are between line 211's send
\* and its outcome
InFlight == TasksIn("inflight")

\* C24: during a DeepSeek query at most max_concurrent (10) chat requests are
\* in flight at any moment; each of them holds one unit of the query's
\* semaphore, and the unit is given back when the request succeeds and when it
\* fails, so the free units and the requests in flight always add up to
\* max_concurrent.
C24_AtMostMaxConcurrent ==
    (lm.model = "DeepSeek" /\ lm.queries > 0 /\ ~lm.fromCache) =>
        /\ Cardinality(InFlight) <= max_concurrent
        /\ lm.semaphore >= 0
        /\ lm.semaphore + Cardinality(InFlight) = max_concurrent

\* eleven requests: the eleventh got the unit that a failed request gave back,
\* and ten are in flight again
C24_Witness ==
    /\ lm.pc = "gather" /\ lm.num_responses = 11
    /\ lm.tasks[11] = "inflight"
    /\ TasksIn("done") = {}
    /\ Cardinality(TasksIn("failed")) = 1
    /\ Cardinality(InFlight) = max_concurrent

\* ------------------------------------------------------------------------
\* The values stored by stages 1 and 2 (SpecParse)
\* ------------------------------------------------------------------------

\* the value found under key k in the accumulated data of thought tid
StoredUnder(tid, k) == Loads(DictGet(DataOf(tid), k)).dict

\* line 1275 is reached with a response_json that has emergency_level
PartialSaveTaken(text) ==
    With(ResponseJson(text, 2), LAMBDA r :
         /\ r.present
         /\ ~validate_json_structure(r.dict, 2)
         /\ DictHas(r.dict, <<"emergency_level">>))

\* C25: every value parse_generate_answer stores under impact_assessment
\* (stage 1) or response_plan (stage 2) passes validate_json_structure for
\* that stage; at stage 2 no response reaches the branch that saves a response
\* that failed validation, because a response with emergency_level validates.
C25_StoredValidates ==
    (called /\ ArgStage \in {1, 2}) =>
        /\ AcceptedTexts # <<>> =>
              \A i \in 1..Len(ret) :
                  /\ DictHas(DataOf(ret[i]), StageKey(ArgStage))
                  /\ validate_json_structure(StoredUnder(ret[i], StageKey(ArgStage)), ArgStage)
        /\ ArgStage = 2 => \A i \in 1..Len(texts) : ~PartialSaveTaken(texts[i])

\* a stage-2 response whose only plan key is emergency_level has been stored
C25_Witness ==
    /\ called /\ ArgStage = 2 /\ Len(ret) >= 1 /\ AcceptedTexts # <<>>
    /\ DictHas(DataOf(ret[1]), PlanKey)
    /\ found_keys(plan_keys, StoredUnder(ret[1], PlanKey)) = <<"emergency_level">>

\* ------------------------------------------------------------------------
\* The retry loop of DeepSeekOfficial.query (SpecOfficial)
\* ------------------------------------------------------------------------

RECURSIVE Samples(_)
\* the choices of a list of completions: the samples their chat calls asked for
Samples(rs) == IF rs = <<>> THEN 0 ELSE Head(rs).choices + Samples(Tail(rs))

\* C26: in DeepSeekOfficial.query with num_responses > 1, at the start of every
\* loop iteration 1 <= next_try <= remaining num_responses, whatever the
\* successes and failures before; the remaining count is never negative and
\* the samples of the successful chats plus the remaining count are the number
\* originally requested.
C26_NextTryInRange ==
    lm.pc = "loop" =>
        /\ lm.remaining >= 0
        /\ Samples(lm.responses) + lm.remaining = lm.num_responses
        /\ Samples(lm.responses) <= lm.num_responses
        /\ InLoop => (1 <= lm.next_try /\ lm.next_try <= lm.remaining)

\* five asked: a failure (next_try 3), a success with three samples, a failure;
\* the next iteration starts with next_try = 1 and two samples remaining
C26_Witness ==
    /\ InLoop /\ lm.num_responses = 5
    /\ Len(lm.responses) = 1 /\ Samples(lm.responses) = 3
    /\ lm.total_num_attempts = 3
    /\ lm.next_try = 1 /\ lm.remaining = 2

\* the query being served is a DeepSeekOfficial query for several samples
\* that went to the API
MultiSample == lm.model = "DeepSeekOfficial" /\ lm.num_responses > 1 /\ ~lm.fromCache

\* the chat calls of the query that raised
FailedCalls == CallsMade(lm) - Len(lm.responses)

\* the loop has been left: line 83 is false, or query() has returned
LoopLeft == (lm.pc = "loop" /\ ~InLoop) \/ lm.pc = "returned"

\* C27: the retry loop of DeepSeekOfficial.query ends for every n > 1 and every
\* sequence of chat outcomes; when it ends either all n samples have been
\* obtained or exactly n attempts have failed, and at most 2n chat calls have
\* been made.
C27_LoopTerminates ==
    /\ [](MultiSample /\ LoopLeft =>
             /\ Samples(lm.responses) = lm.num_responses \/ FailedCalls = lm.num_responses
             /\ CallsMade(lm) <= 2 * lm.num_responses)
    /\ [](MultiSample /\ lm.pc = "loop" => CallsMade(lm) <= 2 * lm.num_responses)
    /\ (lm.pc = "loop") ~> (lm.pc = "returned")

\* six asked: five single samples were obtained between five failures, then
\* the sixth attempt failed and the loop ended with one sample missing
C27_Witness ==
    /\ MultiSample /\ lm.pc = "returned" /\ lm.num_responses = 6
    /\ FailedCalls = 6 /\ Samples(lm.responses) = 5 /\ CallsMade(lm) = 11

\* ------------------------------------------------------------------------
\* The response cache (SpecLM)
\* ------------------------------------------------------------------------

\* this step enters query() for a prompt that an earlier call of this object,
\* made with caching on, has returned a value for
AsksAgain ==
    /\ lm'.queries = lm.queries + 1
    /\ lm.cache
    /\ lm.delivered[lm'.query].hit

\* C28: with caching enabled, a later query with the same prompt makes no new
\* chat request and yields the same response texts as the earlier call of that
\* prompt returned, whatever num_responses the later call asks for.
C28_SecondQueryFromCache ==
    [][AsksAgain =>
          /\ lm'.pc = "returned"
          /\ lm'.chats = lm.chats
          /\ get_response_texts(lm'.out)
                 = get_response_texts(lm.delivered[lm'.query].value)]_vars

\* three responses were returned for "p"; the second query for "p" asks for
\* one and is given the three
C28_Witness ==
    /\ QueryReturned /\ lm.fromCache /\ lm.queries = 2
    /\ lm.num_responses = 1 /\ Len(ReturnedTexts) = 3
    /\ lm.chats = lm.chatsBefore

\* ------------------------------------------------------------------------
\* Token accounting of DeepSeek (SpecDeepSeek)
\* ------------------------------------------------------------------------

RECURSIVE UsageOf(_, _)
\* the usage of the chat calls among requests 1..i that returned, as
\* <<prompt tokens, completion tokens>>
UsageOf(tasks, i) ==
    IF i = 0 THEN <<0, 0>>
    ELSE IF tasks[i] = "done"
         THEN <<UsageOf(tasks, i - 1)[1] + Usage(i).prompt_tokens,
                UsageOf(tasks, i - 1)[2] + Usage(i).completion_tokens>>
         ELSE UsageOf(tasks, i - 1)

\* C29: token accounting loses no update under concurrent requests: during and
\* after a DeepSeek query, whatever the order in which its chat calls end,
\* prompt_tokens and completion_tokens are their values before the query plus
\* the usage of every chat call that has returned, and no step lowers either
\* counter.
C29_NoLostUpdate ==
    /\ [](lm.prompt_tokens = lm.tokensBefore[1] + UsageOf(lm.tasks, Len(lm.tasks))[1])
    /\ [](lm.completion_tokens = lm.tokensBefore[2] + UsageOf(lm.tasks, Len(lm.tasks))[2])
    /\ [][/\ lm'.prompt_tokens >= lm.prompt_tokens
          /\ lm'.completion_tokens >= lm.completion_tokens]_vars

\* a second query of four requests has returned: requests 4, 1 and 3
\* succeeded, request 2 failed, and the usage of the first query is kept
C29_Witness ==
    /\ lm.model = "DeepSeek" /\ lm.pc = "returned" /\ ~lm.fromCache
    /\ lm.queries = 2 /\ lm.num_responses = 4
    /\ lm.tokensBefore = <<2, 2>>
    /\ TasksIn("failed") = {2}
    /\ lm.prompt_tokens = 8 /\ lm.completion_tokens = 7

\* ------------------------------------------------------------------------
\* attempt_fix_truncated_json applied twice (SpecRepair)
\* ------------------------------------------------------------------------

\* the second call has returned
RepairedAgain == fix.pc = "again"

\* C30: the repair engine is idempotent: for every input on which it returns,
\* attempt_fix_truncated_json applied to its own result gives that result
\* again; the returned text parses directly.
C30_Idempotent ==
    RepairedAgain => (Loads(fix.out).ok /\ fix.again = fix.out)

\* the first call ended in the terminal fallback with the emergency_level
\* object, and the second call returned that text
C30_Witness ==
    /\ RepairedAgain /\ fix.by = "fallback"
    /\ fix.out = MinimalLevelText /\ fix.out # fix.json_text

====
